---- MODULE Spec2Model ----
(***************************************************************************)
(* Component Auditor: the background service worker (Coordinator), the     *)
(* content script (Page Agent) and the DevTools pages (Inspector Panel),   *)
(* connected by runtime ports and one-shot messages.                       *)
(***************************************************************************)
EXTENDS Integers, Sequences, FiniteSets, TLC

\* ------------------------------------------------------------------ bounds
MaxEvents == 4     \* environment events (operator and page actions) in a run
MaxGen == 2        \* ports of one page that exist at the same time

Tabs == {1, 2}
\* the tabs whose pages and DevTools the environment acts on; the other tabs
\* keep the session they have in the initial state
ActiveTabs == {1}
Roles == {"content", "devtools", "panel"}
\* a port is named by the page that opened it: <<tab, role, number>>
PortIds == Tabs \X Roles \X (1..MaxGen)
NoPort == <<0, "none", 0>>
NoTab == 0

\* --------------------------------------------------------------- variables
VARIABLES
    panelConnections,   \* background.js Map tabId -> port, as a set of <<tabId, port>>
    contentConnections, \* background.js Map tabId -> port, as a set of <<tabId, port>>
    initListener,       \* ports on which initListener is attached
    discTab,            \* port -> tabId bound by its onDisconnect listener (NoTab: none)
    bgConnected,        \* ports the background has seen connect and not disconnect
    captures,           \* screenshot jobs whose platform callback is outstanding, oldest first
    ports,              \* port -> [state, gen]: the client end of every port
    toBg,               \* port -> FIFO of events travelling to the background
    fromBg,             \* port -> FIFO of events travelling from the background
    tabMsgs,            \* tab -> FIFO of chrome.tabs.sendMessage messages
    rtMsgs,             \* tab -> FIFO of chrome.runtime.sendMessage messages sent from the tab
    agent,              \* tab -> content.js state
    devtools,           \* tab -> devtools.js state
    panel,              \* tab -> panel.js state
    nextSel,            \* next selection number
    events,             \* number of environment events so far
    cropRun,            \* one cropScreenshot call: its inputs and its outcome
    tokenRun,           \* one extractTokens call: the computed style and the tokens
    guessRun,           \* one structural-class guess: the element and the class
    lineageRun,         \* one extractLineage call: the ancestors and the lineage
    frameworkRun,       \* one detectFrameworks call: the page and the names
    library             \* the editor and the component store of one panel

vars == <<panelConnections, contentConnections, initListener, discTab, bgConnected,
          captures, ports, toBg, fromBg, tabMsgs, rtMsgs,
          agent, devtools, panel, nextSel, events, cropRun, tokenRun,
          guessRun, lineageRun, frameworkRun, library>>

\* the variables of the runs of single functions, which the pages leave alone
pureVars == <<cropRun, tokenRun, guessRun, lineageRun, frameworkRun, library>>
NoRun == [phase |-> "none"]

bgVars == <<panelConnections, contentConnections, initListener, discTab, bgConnected,
            captures>>

\* ---------------------------------------------------------------- messages
\* sel numbers the selection an ELEMENT_SELECTED message describes; via is
\* the transport that carried it to the background ("port" or "runtime")
\* rect is the rectangle an ELEMENT_SELECTED message reports
NoRect == [x |-> 0, y |-> 0, width |-> 0, height |-> 0, viewportX |-> 0, viewportY |-> 0]
Msg(type, tabId) == [type |-> type, tabId |-> tabId, sel |-> 0, via |-> "port",
                     rect |-> NoRect]
SelMsg(tabId, sel, via, rect) == [type |-> "ELEMENT_SELECTED", tabId |-> tabId, sel |-> sel,
                                  via |-> via, rect |-> rect]
\* a capture request and its response: on the request sel names the
\* selection whose handler posted it, on the response it stands for dataUrl,
\* the image taken for that request; no handler reads it
CapMsg(type, tabId, sel) == [Msg(type, tabId) EXCEPT !.sel = sel]
Connect == Msg("<connect>", NoTab)
Disconnect == Msg("<disconnect>", NoTab)

\* ------------------------------------------------------------- JS Map model
MapHas(m, k) == \E e \in m : e[1] = k
MapGet(m, k) == IF MapHas(m, k) THEN (CHOOSE e \in m : e[1] = k)[2] ELSE NoPort
MapDelete(m, k) == {e \in m : e[1] # k}
\* variant: set() adds the entry and keeps the one the key had
MapSet_KeepOld(m, k, v) == m \cup {<<k, v>>}

MapSet(m, k, v) == MapDelete(m, k) \cup {<<k, v>>}

\* ------------------------------------------------------ background routing
\* The routing functions thread the part of the state they can change:
\* st = [cc |-> contentConnections, fb |-> fromBg, tm |-> tabMsgs]
RouteState == [cc |-> contentConnections, fb |-> fromBg, tm |-> tabMsgs]

\* port.postMessage throws on a port whose disconnect the caller has seen
PostThrows(p) == p \notin bgConnected

\* variant: the one-shot message to the tab is not sent
tabsSendMessage_NotSent(st, tabId, message) == st

tabsSendMessage(st, tabId, message) ==
    [st EXCEPT !.tm[tabId] = Append(@, message)]

\* variant: the return after a successful post is missing
forwardToContentScript_NoReturn(st, tabId, message) ==
    LET port == MapGet(st.cc, tabId)
    IN IF port # NoPort /\ ~PostThrows(port)
       THEN tabsSendMessage([st EXCEPT !.fb[port] = Append(@, message)], tabId, message)
       ELSE tabsSendMessage([st EXCEPT !.cc = MapDelete(@, tabId)], tabId, message)

forwardToContentScript(st, tabId, message) ==
    LET port == MapGet(st.cc, tabId)
    IN IF port # NoPort
       THEN IF ~PostThrows(port)
            THEN [st EXCEPT !.fb[port] = Append(@, message)]
            ELSE tabsSendMessage([st EXCEPT !.cc = MapDelete(@, tabId)], tabId, message)
       ELSE tabsSendMessage(st, tabId, message)

\* port.postMessage: an exception leaves the queue as it was
PostMessage(fb, p, message) ==
    IF PostThrows(p) THEN fb ELSE [fb EXCEPT ![p] = Append(@, message)]

\* variant: the message is posted twice
forwardToDevToolsPanel_Twice(st, pc, tabId, message) ==
    LET port == MapGet(pc, tabId)
    IN IF port # NoPort
       THEN [st EXCEPT !.fb = PostMessage(PostMessage(@, port, message), port, message)]
       ELSE st

\* variant: with no panel for the tab the message goes to a panel of another tab
forwardToDevToolsPanel_AnyPanel(st, pc, tabId, message) ==
    LET port == MapGet(pc, tabId)
    IN IF port # NoPort
       THEN [st EXCEPT !.fb = PostMessage(@, port, message)]
       ELSE IF pc # {}
            THEN [st EXCEPT !.fb = PostMessage(@, (CHOOSE e \in pc : TRUE)[2], message)]
            ELSE st

forwardToDevToolsPanel(st, pc, tabId, message) ==
    LET port == MapGet(pc, tabId)
    IN IF port # NoPort
       THEN [st EXCEPT !.fb = PostMessage(@, port, message)]
       ELSE st

handlePanelShown(st, tabId) ==
    IF tabId # NoTab THEN forwardToContentScript(st, tabId, Msg("DEVTOOLS_ACTIVE", tabId)) ELSE st

handlePanelHidden(st, tabId) ==
    IF tabId # NoTab THEN forwardToContentScript(st, tabId, Msg("DEVTOOLS_INACTIVE", tabId)) ELSE st

\* variant: no teardown is sent
handlePanelDisconnected_Silent(st, tabId) == st

handlePanelDisconnected(st, tabId) ==
    IF tabId # NoTab THEN forwardToContentScript(st, tabId, Msg("DEVTOOLS_DISCONNECTED", tabId)) ELSE st

\* port.name is "devtools-panel" for both DevTools pages, "content-script-..." otherwise
IsPanelPort(p) == p[2] \in {"devtools", "panel"}
IsContentPort(p) == p[2] = "content"
PortTab(p) == p[1]

\* port.sender.tab.id: only a content script is sent from a tab
SenderTab(p) == IF IsContentPort(p) THEN PortTab(p) ELSE NoTab

\* variant: the default case hands the message to the panel of the sender's tab
RouteSwitch_DefaultForwards(st, p, message) ==
    IF message.type \in {"PANEL_SHOWN", "PANEL_HIDDEN", "ELEMENT_SELECTED",
                         "START_SELECTION", "STOP_SELECTION", "CAPTURE_SCREENSHOT"}
    THEN CASE message.type = "PANEL_SHOWN" -> handlePanelShown(st, message.tabId)
           [] message.type = "PANEL_HIDDEN" -> handlePanelHidden(st, message.tabId)
           [] message.type = "ELEMENT_SELECTED" ->
                 forwardToDevToolsPanel(st, panelConnections,
                     IF message.tabId # NoTab THEN message.tabId ELSE SenderTab(p), message)
           [] message.type = "START_SELECTION" ->
                 forwardToContentScript(st, message.tabId, Msg("START_SELECTION", NoTab))
           [] message.type = "STOP_SELECTION" ->
                 forwardToContentScript(st, message.tabId, Msg("STOP_SELECTION", NoTab))
           [] OTHER -> st
    ELSE forwardToDevToolsPanel(st, panelConnections, PortTab(p), message)

\* the switch of the port.onMessage listener, without CAPTURE_SCREENSHOT
RouteSwitch(st, p, message) ==
    CASE message.type = "PANEL_SHOWN" -> handlePanelShown(st, message.tabId)
      [] message.type = "PANEL_HIDDEN" -> handlePanelHidden(st, message.tabId)
      [] message.type = "ELEMENT_SELECTED" ->
            LET targetTabId == IF message.tabId # NoTab THEN message.tabId ELSE SenderTab(p)
            IN IF targetTabId # NoTab
               THEN forwardToDevToolsPanel(st, panelConnections, targetTabId, message)
               ELSE st
      [] message.type = "START_SELECTION" ->
            IF message.tabId # NoTab
            THEN forwardToContentScript(st, message.tabId, Msg("START_SELECTION", NoTab))
            ELSE st
      [] message.type = "STOP_SELECTION" ->
            IF message.tabId # NoTab
            THEN forwardToContentScript(st, message.tabId, Msg("STOP_SELECTION", NoTab))
            ELSE st
      [] OTHER -> st

SetRoute(st) ==
    /\ contentConnections' = st.cc
    /\ fromBg' = st.fb
    /\ tabMsgs' = st.tm

\* ------------------------------------------------------- background events
BgHead(p) == Head(toBg[p])
IsBgMessage(p) == toBg[p] # <<>> /\ BgHead(p).type \notin {"<connect>", "<disconnect>"}

\* chrome.runtime.onConnect listener
BgOnConnect(p) ==
    /\ toBg[p] # <<>> /\ BgHead(p) = Connect
    /\ toBg' = [toBg EXCEPT ![p] = Tail(@)]
    /\ bgConnected' = bgConnected \cup {p}
    /\ IF IsPanelPort(p)
       THEN /\ initListener' = initListener \cup {p}
            /\ UNCHANGED <<contentConnections, discTab>>
       ELSE /\ contentConnections' = MapSet(contentConnections, SenderTab(p), p)
            /\ discTab' = [discTab EXCEPT ![p] = SenderTab(p)]
            /\ UNCHANGED initListener
    /\ UNCHANGED <<panelConnections, captures, ports, fromBg, tabMsgs,
                   rtMsgs, agent, devtools, panel, nextSel, events>>
    /\ UNCHANGED pureVars

\* initListener, then the routing listener, on one message of port p
BgOnMessage(p) ==
    /\ IsBgMessage(p)
    /\ LET message == BgHead(p)
           registers == p \in initListener /\ message.type = "DEVTOOLS_CONNECTED"
                        /\ message.tabId # NoTab
           ignored == message.type \in {"DEVTOOLS_CONNECTED", "CONTENT_SCRIPT_READY"}
       IN /\ toBg' = [toBg EXCEPT ![p] = Tail(@)]
          /\ IF registers
             THEN /\ panelConnections' = MapSet(panelConnections, message.tabId, p)
                  /\ initListener' = initListener \ {p}
                  /\ discTab' = [discTab EXCEPT ![p] = message.tabId]
             ELSE UNCHANGED <<panelConnections, initListener, discTab>>
          /\ SetRoute(IF ignored THEN RouteState ELSE RouteSwitch(RouteState, p, message))
          /\ captures' = IF ~ignored /\ message.type = "CAPTURE_SCREENSHOT"
                            /\ message.tabId # NoTab
                         THEN Append(captures, [tabId |-> message.tabId, port |-> p,
                                                stage |-> "get", sel |-> message.sel])
                         ELSE captures
    /\ UNCHANGED <<bgConnected, ports, rtMsgs, agent, devtools, panel, nextSel, events>>
    /\ UNCHANGED pureVars

\* variant: the listener leaves the entry in the map
contentDisconnected_Keep(cc, tabId) == cc

\* the onDisconnect listener of a content-script port
contentDisconnected(cc, tabId) == IF tabId # NoTab THEN MapDelete(cc, tabId) ELSE cc

\* the port.onDisconnect listeners; the port and its listeners are gone afterwards
BgOnDisconnect(p) ==
    /\ toBg[p] # <<>> /\ BgHead(p) = Disconnect
    /\ toBg' = [toBg EXCEPT ![p] = <<>>]
    /\ bgConnected' = bgConnected \ {p}
    /\ initListener' = initListener \ {p}
    /\ discTab' = [discTab EXCEPT ![p] = NoTab]
    /\ IF IsPanelPort(p)
       THEN IF discTab[p] # NoTab
            THEN /\ panelConnections' = MapDelete(panelConnections, discTab[p])
                 /\ SetRoute(handlePanelDisconnected(RouteState, discTab[p]))
            ELSE UNCHANGED <<panelConnections, contentConnections, fromBg, tabMsgs>>
       ELSE /\ contentConnections' = contentDisconnected(contentConnections, discTab[p])
            /\ UNCHANGED <<panelConnections, fromBg, tabMsgs>>
    /\ UNCHANGED <<captures, ports, rtMsgs, agent, devtools, panel, nextSel, events>>
    /\ UNCHANGED pureVars

\* chrome.runtime.onMessage listener (one-shot messages from content scripts)
BgOnRuntimeMessage(t) ==
    /\ rtMsgs[t] # <<>>
    /\ rtMsgs' = [rtMsgs EXCEPT ![t] = Tail(@)]
    /\ LET message == Head(rtMsgs[t])
       IN SetRoute(IF message.type = "ELEMENT_SELECTED"
                   THEN forwardToDevToolsPanel(RouteState, panelConnections, t, message)
                   ELSE RouteState)
    /\ UNCHANGED <<panelConnections, initListener, discTab, bgConnected, captures,
                   ports, toBg, agent, devtools, panel, nextSel, events>>
    /\ UNCHANGED pureVars

SeqRemove(q, i) == [j \in 1..(Len(q) - 1) |-> IF j < i THEN q[j] ELSE q[j + 1]]

\* variant: a chrome.tabs.get error ends the job without a response
TabsGetCallback_NoError(i, ok) ==
    /\ i \in DOMAIN captures /\ captures[i].stage = "get"
    /\ captures' = IF ok THEN [captures EXCEPT ![i].stage = "capture"]
                         ELSE SeqRemove(captures, i)
    /\ UNCHANGED <<panelConnections, contentConnections, initListener, discTab, bgConnected,
                   ports, toBg, fromBg, tabMsgs, rtMsgs, agent, devtools, panel, nextSel,
                   events>>
    /\ UNCHANGED pureVars

\* captureScreenshot: the chrome.tabs.get callback of job i
TabsGetCallback(i, ok) ==
    /\ i \in DOMAIN captures /\ captures[i].stage = "get"
    /\ IF ok
       THEN /\ captures' = [captures EXCEPT ![i].stage = "capture"]
            /\ UNCHANGED fromBg
       ELSE /\ captures' = SeqRemove(captures, i)
            /\ fromBg' = PostMessage(fromBg, captures[i].port,
                                     CapMsg("SCREENSHOT_ERROR", NoTab, captures[i].sel))
    /\ UNCHANGED <<panelConnections, contentConnections, initListener, discTab, bgConnected,
                   ports, toBg, tabMsgs, rtMsgs, agent, devtools, panel, nextSel, events>>
    /\ UNCHANGED pureVars

\* captureScreenshot: the chrome.tabs.captureVisibleTab callback of job i
CaptureVisibleTabCallback(i, ok) ==
    /\ i \in DOMAIN captures /\ captures[i].stage = "capture"
    /\ captures' = SeqRemove(captures, i)
    /\ fromBg' = PostMessage(fromBg, captures[i].port,
                             IF ok THEN CapMsg("SCREENSHOT_CAPTURED", captures[i].tabId,
                                               captures[i].sel)
                                   ELSE CapMsg("SCREENSHOT_ERROR", NoTab, captures[i].sel))
    /\ UNCHANGED <<panelConnections, contentConnections, initListener, discTab, bgConnected,
                   ports, toBg, tabMsgs, rtMsgs, agent, devtools, panel, nextSel, events>>
    /\ UNCHANGED pureVars

\* ------------------------------------------------------ client-side ports
\* ports[p].state: "closed" (no client end: never opened, or gone), "open",
\* "closing" (the channel is lost and the client has not run onDisconnect yet)
\* ports[p].gen: which onDisconnect listener content.js attached to it
ClosedPort == [state |-> "closed", gen |-> "init"]
OpenPort(gen) == [state |-> "open", gen |-> gen]

\* a port name can be used again once nothing of the old port is left
Free(p) ==
    /\ ports[p].state = "closed"
    /\ toBg[p] = <<>> /\ fromBg[p] = <<>>
    /\ p \notin bgConnected
    /\ \A i \in DOMAIN captures : captures[i].port # p

HasFreePort(t, role) == \E g \in 1..MaxGen : Free(<<t, role, g>>)
NewPort(t, role) ==
    <<t, role, CHOOSE g \in 1..MaxGen :
                   /\ Free(<<t, role, g>>)
                   /\ \A h \in 1..(g - 1) : ~Free(<<t, role, h>>)>>

\* a message posted on a channel that is already lost never arrives
ClientPost(tb, p, message) ==
    IF ports[p].state = "open" THEN [tb EXCEPT ![p] = Append(@, message)] ELSE tb

\* ------------------------------------------------------------- content.js
\* the page: one element, at ElementBox in document coordinates, and the
\* vertical scroll offset of the window (the page does not scroll sideways)
ElementBox == [left |-> 10, top |-> 20, width |-> 100, height |-> 50]
ScrollOffsets == {0, 5}
NoStyle == [left |-> 0, top |-> 0, width |-> 0, height |-> 0]

\* overlay: "null", or the display of the overlay element ("hidden", "shown");
\* overlayStyle: its left, top, width and height; overlays: the elements
\* with id __CA_OVERLAY__ in the document
AgentInitial ==
    [loaded |-> FALSE, isSelectionMode |-> FALSE, overlay |-> "null", port |-> NoPort,
     currentTabId |-> NoTab, listeners |-> FALSE, cursorStyles |-> 0, lastElement |-> 0,
     overlayStyle |-> NoStyle, scrollY |-> 0, overlays |-> 0]

\* target.getBoundingClientRect(): the element relative to the viewport
getBoundingClientRect(a) ==
    [left |-> ElementBox.left, top |-> ElementBox.top - a.scrollY,
     width |-> ElementBox.width, height |-> ElementBox.height]

\* variant: an element is appended although the overlay exists
createOverlay_NoGuard(a) ==
    [a EXCEPT !.overlay = IF @ = "null" THEN "hidden" ELSE @, !.overlays = @ + 1]

createOverlay(a) ==
    IF a.overlay # "null" THEN a ELSE [a EXCEPT !.overlay = "hidden", !.overlays = @ + 1]

hideOverlay(a) == IF a.overlay # "null" THEN [a EXCEPT !.overlay = "hidden"] ELSE a

\* variant: a second START_SELECTION installs everything again
enableSelectionMode_NoGuard(a) ==
    [createOverlay(a) EXCEPT !.isSelectionMode = TRUE, !.listeners = TRUE,
                             !.cursorStyles = @ + 1]

\* variant: the flag stays set
disableSelectionMode_KeepFlag(a) ==
    IF ~a.isSelectionMode
    THEN a
    ELSE [hideOverlay(a) EXCEPT !.listeners = FALSE,
                                !.cursorStyles = IF @ > 0 THEN @ - 1 ELSE 0]

enableSelectionMode(a) ==
    IF a.isSelectionMode
    THEN a
    ELSE [createOverlay(a) EXCEPT !.isSelectionMode = TRUE, !.listeners = TRUE,
                                  !.cursorStyles = @ + 1]

\* variant: the function toggles the mode
disableSelectionMode_Toggle(a) ==
    IF ~a.isSelectionMode
    THEN enableSelectionMode(a)
    ELSE [hideOverlay(a) EXCEPT !.isSelectionMode = FALSE, !.listeners = FALSE,
                                !.cursorStyles = IF @ > 0 THEN @ - 1 ELSE 0]

disableSelectionMode(a) ==
    IF ~a.isSelectionMode
    THEN a
    ELSE [hideOverlay(a) EXCEPT !.isSelectionMode = FALSE, !.listeners = FALSE,
                                !.cursorStyles = IF @ > 0 THEN @ - 1 ELSE 0]

\* variant: cleanup() leaves the overlay element in the document
cleanup_KeepOverlay(a) ==
    [disableSelectionMode(a) EXCEPT !.cursorStyles = IF @ > 0 THEN @ - 1 ELSE 0,
                                    !.lastElement = 0]

cleanup(a) ==
    [disableSelectionMode(a) EXCEPT !.overlay = "null",
                                    !.overlays = IF a.overlay # "null" THEN @ - 1 ELSE @,
                                    !.overlayStyle = NoStyle,
                                    !.cursorStyles = IF @ > 0 THEN @ - 1 ELSE 0,
                                    !.lastElement = 0]

\* variant: the STOP_SELECTION case is missing
AgentHandleMessage_NoStop(a, message) ==
    CASE message.type = "DEVTOOLS_ACTIVE" ->
            IF message.tabId # NoTab THEN [a EXCEPT !.currentTabId = message.tabId] ELSE a
      [] message.type = "DEVTOOLS_INACTIVE" -> disableSelectionMode(a)
      [] message.type = "DEVTOOLS_DISCONNECTED" -> cleanup(a)
      [] message.type = "START_SELECTION" -> enableSelectionMode(a)
      [] OTHER -> a

\* handleMessage of content.js
AgentHandleMessage(a, message) ==
    CASE message.type = "DEVTOOLS_ACTIVE" ->
            IF message.tabId # NoTab THEN [a EXCEPT !.currentTabId = message.tabId] ELSE a
      [] message.type = "DEVTOOLS_INACTIVE" -> disableSelectionMode(a)
      [] message.type = "DEVTOOLS_DISCONNECTED" -> cleanup(a)
      [] message.type = "START_SELECTION" -> enableSelectionMode(a)
      [] message.type = "STOP_SELECTION" -> disableSelectionMode(a)
      [] OTHER -> a

\* init(): the content script starts in a loaded page and connects
ContentInit(t) ==
    /\ ~agent[t].loaded
    /\ HasFreePort(t, "content")
    /\ events < MaxEvents
    /\ events' = events + 1
    /\ LET p == NewPort(t, "content")
       IN /\ ports' = [ports EXCEPT ![p] = OpenPort("init")]
          /\ toBg' = [toBg EXCEPT ![p] = <<Connect, Msg("CONTENT_SCRIPT_READY", NoTab)>>]
          /\ agent' = [agent EXCEPT ![t] = [AgentInitial EXCEPT !.loaded = TRUE, !.port = p]]
    /\ UNCHANGED <<bgVars, fromBg, tabMsgs, rtMsgs, devtools, panel, nextSel>>
    /\ UNCHANGED pureVars

ClientHead(p) == Head(fromBg[p])
IsClientMessage(p) ==
    /\ fromBg[p] # <<>>
    /\ ports[p].state \in {"open", "closing"}
    /\ ClientHead(p) # Disconnect

\* port.onMessage listener of content.js
AgentPortMessage(p) ==
    /\ IsContentPort(p) /\ IsClientMessage(p)
    /\ fromBg' = [fromBg EXCEPT ![p] = Tail(@)]
    /\ agent' = [agent EXCEPT ![PortTab(p)] = AgentHandleMessage(@, ClientHead(p))]
    /\ UNCHANGED <<bgVars, ports, toBg, tabMsgs, rtMsgs, devtools, panel, nextSel, events>>
    /\ UNCHANGED pureVars

\* chrome.runtime.onMessage listener of content.js; with no content script
\* in the tab the sender's promise rejects and the message is gone
AgentTabMessage(t) ==
    /\ tabMsgs[t] # <<>>
    /\ tabMsgs' = [tabMsgs EXCEPT ![t] = Tail(@)]
    /\ agent' = IF agent[t].loaded
                THEN [agent EXCEPT ![t] = AgentHandleMessage(@, Head(tabMsgs[t]))]
                ELSE agent
    /\ UNCHANGED <<bgVars, ports, toBg, fromBg, rtMsgs, devtools, panel, nextSel, events>>
    /\ UNCHANGED pureVars

\* port.onDisconnect listeners of content.js: the one of init() cleans up
\* or reconnects (ok: chrome.runtime.connect did not throw), the one of the
\* reconnected port only forgets the port
AgentOnDisconnect(p, ok) ==
    /\ IsContentPort(p) /\ ports[p].state = "closing"
    /\ fromBg[p] # <<>> /\ ClientHead(p) = Disconnect
    /\ LET t == PortTab(p)
           a == [agent[t] EXCEPT !.port = NoPort]
           tries == ports[p].gen = "init" /\ a.isSelectionMode
       IN /\ ok => HasFreePort(t, "content")
          /\ ~tries => ok
          /\ IF tries /\ ok
             THEN LET q == NewPort(t, "content")
                  IN /\ ports' = [ports EXCEPT ![p] = ClosedPort, ![q] = OpenPort("reconnect")]
                     /\ toBg' = [toBg EXCEPT ![q] = <<Connect, Msg("CONTENT_SCRIPT_READY",
                                                                   NoTab)>>]
                     /\ agent' = [agent EXCEPT ![t] = [a EXCEPT !.port = q]]
             ELSE /\ ports' = [ports EXCEPT ![p] = ClosedPort]
                  /\ agent' = [agent EXCEPT ![t] = IF ports[p].gen = "init" /\ ~a.isSelectionMode
                                                    THEN cleanup(a) ELSE a]
                  /\ UNCHANGED toBg
    /\ fromBg' = [fromBg EXCEPT ![p] = <<>>]
    /\ UNCHANGED <<bgVars, tabMsgs, rtMsgs, devtools, panel, nextSel, events>>
    /\ UNCHANGED pureVars

updateOverlay(a) ==
    LET rect == getBoundingClientRect(a)
    IN [createOverlay(a) EXCEPT !.overlay = "shown",
                 !.overlayStyle = [left |-> rect.left, top |-> rect.top + a.scrollY,
                                   width |-> rect.width, height |-> rect.height]]

\* the mouseover listener
handleMouseOver(a, target) ==
    IF ~a.isSelectionMode \/ target = "overlay"
    THEN a
    ELSE updateOverlay(a)

AgentMouseOver(t, target) ==
    /\ agent[t].loaded /\ agent[t].listeners
    /\ target = "overlay" => agent[t].overlay # "null"
    /\ agent' = [agent EXCEPT ![t] = handleMouseOver(@, target)]
    /\ UNCHANGED <<bgVars, ports, toBg, fromBg, tabMsgs, rtMsgs, devtools, panel,
                   nextSel, events>>
    /\ UNCHANGED pureVars

\* variant: the page-relative origin leaves out the scroll offset
selectionRect_NoScroll(a) ==
    LET rect == getBoundingClientRect(a)
    IN [x |-> rect.left, y |-> rect.top,
        width |-> rect.width, height |-> rect.height,
        viewportX |-> rect.left, viewportY |-> rect.top]

\* rect of the selection message of handleClick
selectionRect(a) ==
    LET rect == getBoundingClientRect(a)
    IN [x |-> rect.left, y |-> rect.top + a.scrollY,
        width |-> rect.width, height |-> rect.height,
        viewportX |-> rect.left, viewportY |-> rect.top]

\* variant: a click on the overlay is taken as a selection
handleClickReturns_OverlaySelects(a, target) == ~a.isSelectionMode

\* the two early returns of handleClick
handleClickReturns(a, target) == ~a.isSelectionMode \/ target = "overlay"

\* a click in the page: the click listener runs if it is installed
AgentClick(t, target) ==
    /\ agent[t].loaded
    /\ events < MaxEvents
    /\ target = "overlay" => agent[t].overlay # "null"
    /\ events' = events + 1
    /\ LET a == agent[t]
           selectionMessage == [v \in {"port", "runtime"} |->
                                    SelMsg(a.currentTabId, nextSel, v, selectionRect(a))]
       IN IF ~a.listeners \/ handleClickReturns(a, target)
          THEN UNCHANGED <<agent, toBg, rtMsgs, nextSel>>
          ELSE /\ nextSel' = nextSel + 1
               /\ agent' = [agent EXCEPT ![t] =
                                disableSelectionMode([a EXCEPT !.lastElement = nextSel])]
               /\ IF a.port # NoPort
                  THEN /\ toBg' = ClientPost(toBg, a.port, selectionMessage["port"])
                       /\ UNCHANGED rtMsgs
                  ELSE /\ rtMsgs' = [rtMsgs EXCEPT ![t] = Append(@, selectionMessage["runtime"])]
                       /\ UNCHANGED toBg
    /\ UNCHANGED <<bgVars, ports, fromBg, tabMsgs, devtools, panel>>
    /\ UNCHANGED pureVars

\* the operator scrolls the page
PageScroll(t, y) ==
    /\ agent[t].loaded /\ y # agent[t].scrollY
    /\ events < MaxEvents
    /\ events' = events + 1
    /\ agent' = [agent EXCEPT ![t].scrollY = y]
    /\ UNCHANGED <<bgVars, ports, toBg, fromBg, tabMsgs, rtMsgs, devtools, panel, nextSel>>
    /\ UNCHANGED pureVars

\* the operator presses a key in the page: content.js adds mouseover and
\* click listeners only, so no code of it runs
AgentKeyDown(t, key) ==
    /\ agent[t].loaded
    /\ events < MaxEvents
    /\ events' = events + 1
    /\ UNCHANGED <<bgVars, ports, toBg, fromBg, tabMsgs, rtMsgs, agent, devtools, panel,
                   nextSel>>
    /\ UNCHANGED pureVars

\* the channel of a content script is lost while the page lives on
AgentPortLost(t) ==
    /\ agent[t].loaded /\ agent[t].port # NoPort
    /\ ports[agent[t].port].state = "open"
    /\ events < MaxEvents
    /\ events' = events + 1
    /\ LET p == agent[t].port
       IN /\ ports' = [ports EXCEPT ![p].state = "closing"]
          /\ toBg' = [toBg EXCEPT ![p] = Append(@, Disconnect)]
          /\ fromBg' = [fromBg EXCEPT ![p] = Append(@, Disconnect)]
    /\ UNCHANGED <<bgVars, tabMsgs, rtMsgs, agent, devtools, panel, nextSel>>
    /\ UNCHANGED pureVars

\* beforeunload: cleanup(), then the page and its content script are gone
PageUnload(t) ==
    /\ agent[t].loaded
    /\ events < MaxEvents
    /\ events' = events + 1
    /\ agent' = [agent EXCEPT ![t] = AgentInitial]
    /\ LET p == agent[t].port
       IN IF p = NoPort
          THEN UNCHANGED <<ports, toBg, fromBg>>
          ELSE /\ ports' = [ports EXCEPT ![p] = ClosedPort]
               /\ toBg' = IF ports[p].state = "open"
                          THEN [toBg EXCEPT ![p] = Append(@, Disconnect)]
                          ELSE toBg
               /\ fromBg' = [fromBg EXCEPT ![p] = <<>>]
    /\ UNCHANGED <<bgVars, tabMsgs, rtMsgs, devtools, panel, nextSel>>
    /\ UNCHANGED pureVars

\* a message posted to a port whose client end is gone is never delivered
DeadLetter(p) ==
    /\ ports[p].state = "closed"
    /\ fromBg[p] # <<>>
    /\ fromBg' = [fromBg EXCEPT ![p] = <<>>]
    /\ UNCHANGED <<bgVars, ports, toBg, tabMsgs, rtMsgs, agent, devtools, panel,
                   nextSel, events>>
    /\ UNCHANGED pureVars

\* ------------------------------------------------- devtools.js and panel.js
DevtoolsInitial == [open |-> FALSE, port |-> NoPort, panelWindow |-> FALSE, visible |-> FALSE]

PanelInitial ==
    [open |-> FALSE, port |-> NoPort, isSelectionMode |-> FALSE, pending |-> 0,
     crops |-> <<>>, editor |-> 0]

\* the panel handlers thread ps = [pn |-> panel.js state, tb |-> toBg]
startSelectionMode(ps, t) ==
    IF ps.pn.port # NoPort
    THEN [pn |-> [ps.pn EXCEPT !.isSelectionMode = TRUE],
          tb |-> ClientPost(ps.tb, ps.pn.port, Msg("START_SELECTION", t))]
    ELSE [ps EXCEPT !.pn.isSelectionMode = FALSE]

stopSelectionMode(ps, t) ==
    [pn |-> [ps.pn EXCEPT !.isSelectionMode = FALSE],
     tb |-> IF ps.pn.port # NoPort
            THEN ClientPost(ps.tb, ps.pn.port, Msg("STOP_SELECTION", t))
            ELSE ps.tb]

toggleSelectionMode(ps, t) ==
    IF ~ps.pn.isSelectionMode THEN startSelectionMode(ps, t) ELSE stopSelectionMode(ps, t)

handleSelectionCanceled(ps, t) == stopSelectionMode(ps, t)

\* variant: the capture request is posted twice
handleElementSelected_TwoRequests(ps, t, message) ==
    LET s1 == stopSelectionMode(ps, t)
    IN [pn |-> [s1.pn EXCEPT !.pending = message.sel],
        tb |-> IF s1.pn.port # NoPort
               THEN ClientPost(ClientPost(s1.tb, s1.pn.port,
                                          CapMsg("CAPTURE_SCREENSHOT", t, message.sel)),
                               s1.pn.port, CapMsg("CAPTURE_SCREENSHOT", t, message.sel))
               ELSE s1.tb]

\* variant: a response without a pending element starts a crop all the same
handleScreenshotCaptured_NoGuard(ps) ==
    [ps EXCEPT !.pn.crops = Append(@, ps.pn.pending)]

handleElementSelected(ps, t, message) ==
    LET s1 == stopSelectionMode(ps, t)
    IN [pn |-> [s1.pn EXCEPT !.pending = message.sel],
        tb |-> IF s1.pn.port # NoPort
               THEN ClientPost(s1.tb, s1.pn.port, CapMsg("CAPTURE_SCREENSHOT", t, message.sel))
               ELSE s1.tb]

handleScreenshotCaptured(ps) ==
    IF ps.pn.pending = 0
    THEN ps
    ELSE [ps EXCEPT !.pn.crops = Append(@, ps.pn.pending)]

\* variant: the pending element is kept after a capture error
handleScreenshotError_KeepsPending(ps) == ps

handleScreenshotError(ps) == [ps EXCEPT !.pn.pending = 0]

\* handleMessage of panel.js
PanelHandleMessage(ps, t, message) ==
    CASE message.type = "ELEMENT_SELECTED" -> handleElementSelected(ps, t, message)
      [] message.type = "SELECTION_CANCELED" -> handleSelectionCanceled(ps, t)
      [] message.type = "SCREENSHOT_CAPTURED" -> handleScreenshotCaptured(ps)
      [] message.type = "SCREENSHOT_ERROR" -> handleScreenshotError(ps)
      [] OTHER -> ps

SetPanel(t, ps) ==
    /\ panel' = [panel EXCEPT ![t] = ps.pn]
    /\ toBg' = ps.tb

\* devtools.js: the chrome.devtools.panels.create callback
DevToolsOpen(t) ==
    /\ ~devtools[t].open
    /\ HasFreePort(t, "devtools")
    /\ events < MaxEvents
    /\ events' = events + 1
    /\ LET p == NewPort(t, "devtools")
       IN /\ ports' = [ports EXCEPT ![p] = OpenPort("init")]
          /\ toBg' = [toBg EXCEPT ![p] = <<Connect, Msg("DEVTOOLS_CONNECTED", t)>>]
          /\ devtools' = [devtools EXCEPT ![t] = [DevtoolsInitial EXCEPT !.open = TRUE,
                                                                         !.port = p]]
    /\ UNCHANGED <<bgVars, fromBg, tabMsgs, rtMsgs, agent, panel, nextSel>>
    /\ UNCHANGED pureVars

\* devtools.js: panel.onShown
PanelShown(t) ==
    /\ devtools[t].open /\ ~devtools[t].visible
    /\ events < MaxEvents
    /\ events' = events + 1
    /\ devtools' = [devtools EXCEPT ![t].panelWindow = TRUE, ![t].visible = TRUE]
    /\ toBg' = ClientPost(toBg, devtools[t].port, Msg("PANEL_SHOWN", t))
    /\ UNCHANGED <<bgVars, ports, fromBg, tabMsgs, rtMsgs, agent, panel, nextSel>>
    /\ UNCHANGED pureVars

\* devtools.js: panel.onHidden
PanelHidden(t) ==
    /\ devtools[t].open /\ devtools[t].visible
    /\ events < MaxEvents
    /\ events' = events + 1
    /\ devtools' = [devtools EXCEPT ![t].visible = FALSE]
    /\ toBg' = ClientPost(toBg, devtools[t].port, Msg("PANEL_HIDDEN", t))
    /\ UNCHANGED <<bgVars, ports, fromBg, tabMsgs, rtMsgs, agent, panel, nextSel>>
    /\ UNCHANGED pureVars

\* panel.js: init() and connectToBackground(), run when panel.html first loads
PanelInit(t) ==
    /\ devtools[t].open /\ devtools[t].panelWindow /\ ~panel[t].open
    /\ HasFreePort(t, "panel")
    /\ LET p == NewPort(t, "panel")
       IN /\ ports' = [ports EXCEPT ![p] = OpenPort("init")]
          /\ toBg' = [toBg EXCEPT ![p] = <<Connect, Msg("DEVTOOLS_CONNECTED", t)>>]
          /\ panel' = [panel EXCEPT ![t] = [PanelInitial EXCEPT !.open = TRUE, !.port = p]]
    /\ UNCHANGED <<bgVars, fromBg, tabMsgs, rtMsgs, agent, devtools, nextSel, events>>
    /\ UNCHANGED pureVars

\* panel.js: click on the select button
ToggleSelection(t) ==
    /\ panel[t].open /\ devtools[t].visible
    /\ events < MaxEvents
    /\ events' = events + 1
    /\ SetPanel(t, toggleSelectionMode([pn |-> panel[t], tb |-> toBg], t))
    /\ UNCHANGED <<bgVars, ports, fromBg, tabMsgs, rtMsgs, agent, devtools, nextSel>>
    /\ UNCHANGED pureVars

\* panel.js: port.onMessage listener
PanelPortMessage(p) ==
    /\ p[2] = "panel" /\ IsClientMessage(p)
    /\ fromBg' = [fromBg EXCEPT ![p] = Tail(@)]
    /\ LET t == PortTab(p)
       IN SetPanel(t, PanelHandleMessage([pn |-> panel[t], tb |-> toBg], t, ClientHead(p)))
    /\ UNCHANGED <<bgVars, ports, tabMsgs, rtMsgs, agent, devtools, nextSel, events>>
    /\ UNCHANGED pureVars

\* devtools.js: port.onMessage listener, which hands the message to the
\* panel window, where the message listener of panel.js runs handleMessage
DevtoolsPortMessage(p) ==
    /\ p[2] = "devtools" /\ IsClientMessage(p)
    /\ fromBg' = [fromBg EXCEPT ![p] = Tail(@)]
    /\ LET t == PortTab(p)
       IN IF devtools[t].panelWindow /\ panel[t].open
          THEN SetPanel(t, PanelHandleMessage([pn |-> panel[t], tb |-> toBg], t,
                                              ClientHead(p)))
          ELSE UNCHANGED <<panel, toBg>>
    /\ UNCHANGED <<bgVars, ports, tabMsgs, rtMsgs, agent, devtools, nextSel, events>>
    /\ UNCHANGED pureVars

\* panel.js: the cropScreenshot promise of crop i settles
CropSettled(t, i, ok) ==
    /\ panel[t].open
    /\ i \in DOMAIN panel[t].crops
    /\ panel' = [panel EXCEPT ![t].crops = SeqRemove(@, i),
                              ![t].pending = 0,
                              ![t].editor = IF ok THEN panel[t].crops[i] ELSE @]
    /\ UNCHANGED <<bgVars, ports, toBg, fromBg, tabMsgs, rtMsgs, agent, devtools,
                   nextSel, events>>
    /\ UNCHANGED pureVars

\* DevTools of tab t closes: both pages go away and their ports disconnect
ClosePort(tb, p) ==
    IF p # NoPort /\ ports[p].state = "open" THEN [tb EXCEPT ![p] = Append(@, Disconnect)] ELSE tb

DevToolsClose(t) ==
    /\ devtools[t].open
    /\ events < MaxEvents
    /\ events' = events + 1
    /\ LET closing == {devtools[t].port, panel[t].port} \ {NoPort}
       IN /\ ports' = [p \in PortIds |-> IF p \in closing THEN ClosedPort ELSE ports[p]]
          /\ toBg' = ClosePort(ClosePort(toBg, devtools[t].port), panel[t].port)
          /\ fromBg' = [p \in PortIds |-> IF p \in closing THEN <<>> ELSE fromBg[p]]
    /\ devtools' = [devtools EXCEPT ![t] = DevtoolsInitial]
    /\ panel' = [panel EXCEPT ![t] = PanelInitial]
    /\ UNCHANGED <<bgVars, tabMsgs, rtMsgs, agent, nextSel>>
    /\ UNCHANGED pureVars

\* ------------------------------------------------------ the specification
\* the service worker has started and no page has connected yet
ColdStart ==
    /\ panelConnections = {}
    /\ contentConnections = {}
    /\ initListener = {}
    /\ discTab = [p \in PortIds |-> NoTab]
    /\ bgConnected = {}
    /\ ports = [p \in PortIds |-> ClosedPort]
    /\ agent = [t \in Tabs |-> AgentInitial]
    /\ devtools = [t \in Tabs |-> DevtoolsInitial]
    /\ panel = [t \in Tabs |-> PanelInitial]

\* every tab has a page with its content script connected and DevTools open
\* on it, the panel has been shown, and every message has been handled
AgentPort(t) == <<t, "content", 1>>
DevtoolsPort(t) == <<t, "devtools", 1>>
PanelPort(t) == <<t, "panel", 1>>
SessionPorts == {AgentPort(t) : t \in Tabs} \cup {DevtoolsPort(t) : t \in Tabs}
                    \cup {PanelPort(t) : t \in Tabs}

Established ==
    /\ panelConnections = {<<t, PanelPort(t)>> : t \in Tabs}
    /\ contentConnections = {<<t, AgentPort(t)>> : t \in Tabs}
    /\ initListener = {}
    /\ discTab = [p \in PortIds |-> IF p \in SessionPorts THEN PortTab(p) ELSE NoTab]
    /\ bgConnected = SessionPorts
    /\ ports = [p \in PortIds |-> IF p \in SessionPorts THEN OpenPort("init") ELSE ClosedPort]
    /\ agent = [t \in Tabs |-> [AgentInitial EXCEPT !.loaded = TRUE, !.port = AgentPort(t),
                                                    !.currentTabId = t]]
    /\ devtools = [t \in Tabs |-> [open |-> TRUE, port |-> DevtoolsPort(t),
                                   panelWindow |-> TRUE, visible |-> TRUE]]
    /\ panel = [t \in Tabs |-> [PanelInitial EXCEPT !.open = TRUE, !.port = PanelPort(t)]]

Init ==
    /\ ColdStart \/ Established
    /\ captures = <<>>
    /\ toBg = [p \in PortIds |-> <<>>]
    /\ fromBg = [p \in PortIds |-> <<>>]
    /\ tabMsgs = [t \in Tabs |-> <<>>]
    /\ rtMsgs = [t \in Tabs |-> <<>>]
    /\ nextSel = 1
    /\ events = 0
    /\ cropRun = NoRun
    /\ tokenRun = NoRun
    /\ guessRun = NoRun
    /\ lineageRun = NoRun
    /\ frameworkRun = NoRun
    /\ library = NoRun

Next ==
    \/ \E p \in PortIds : BgOnConnect(p)
    \/ \E p \in PortIds : BgOnMessage(p)
    \/ \E p \in PortIds : BgOnDisconnect(p)
    \/ \E t \in Tabs : BgOnRuntimeMessage(t)
    \/ \E i \in DOMAIN captures, ok \in BOOLEAN : TabsGetCallback(i, ok)
    \/ \E i \in DOMAIN captures, ok \in BOOLEAN : CaptureVisibleTabCallback(i, ok)
    \/ \E t \in ActiveTabs : ContentInit(t)
    \/ \E p \in PortIds : AgentPortMessage(p)
    \/ \E t \in Tabs : AgentTabMessage(t)
    \/ \E p \in PortIds, ok \in BOOLEAN : AgentOnDisconnect(p, ok)
    \/ \E t \in ActiveTabs, target \in {"element", "overlay"} : AgentMouseOver(t, target)
    \/ \E t \in ActiveTabs, target \in {"element", "overlay"} : AgentClick(t, target)
    \/ \E t \in ActiveTabs, y \in ScrollOffsets : PageScroll(t, y)
    \/ \E t \in ActiveTabs : AgentKeyDown(t, "Escape")
    \/ \E t \in ActiveTabs : AgentPortLost(t)
    \/ \E t \in ActiveTabs : PageUnload(t)
    \/ \E p \in PortIds : DeadLetter(p)
    \/ \E t \in ActiveTabs : DevToolsOpen(t)
    \/ \E t \in ActiveTabs : PanelShown(t)
    \/ \E t \in ActiveTabs : PanelHidden(t)
    \/ \E t \in ActiveTabs : PanelInit(t)
    \/ \E t \in ActiveTabs : ToggleSelection(t)
    \/ \E p \in PortIds : PanelPortMessage(p)
    \/ \E p \in PortIds : DevtoolsPortMessage(p)
    \/ \E t \in Tabs, ok \in BOOLEAN : \E i \in DOMAIN panel[t].crops : CropSettled(t, i, ok)
    \/ \E t \in ActiveTabs : DevToolsClose(t)

Spec == Init /\ [][Next]_vars

\* ------------------------------------------- messages no page of src/ sends
\* The routing listener of the background accepts whatever a connected port
\* delivers. No page under src/ posts a selection-canceled notice or a type
\* outside the protocol; here a content script posts one on its port.
OtherTypes == {"SELECTION_CANCELED", "UNKNOWN_TYPE"}

ContentPostsOther(t, type) ==
    /\ agent[t].loaded /\ agent[t].port # NoPort
    /\ ports[agent[t].port].state = "open"
    /\ events < MaxEvents
    /\ events' = events + 1
    /\ toBg' = ClientPost(toBg, agent[t].port, Msg(type, t))
    /\ UNCHANGED <<bgVars, ports, fromBg, tabMsgs, rtMsgs, agent, devtools, panel, nextSel>>
    /\ UNCHANGED pureVars

NextOpen ==
    \/ Next
    \/ \E t \in ActiveTabs, type \in OtherTypes : ContentPostsOther(t, type)

SpecOpen == Init /\ [][NextOpen]_vars

\* ------------------------------------------------------------ observations
CountType(q, type) == Cardinality({i \in DOMAIN q : q[i].type = type})

RECURSIVE SumCount(_, _, _)
SumCount(S, fb, type) ==
    IF S = {}
    THEN 0
    ELSE LET p == CHOOSE x \in S : TRUE
         IN CountType(fb[p], type) + SumCount(S \ {p}, fb, type)

AgentPorts(k) == {p \in PortIds : IsContentPort(p) /\ PortTab(p) = k}

\* messages of one type on their way to the content script of tab k
AgentBound(fb, tm, k, type) == SumCount(AgentPorts(k), fb, type) + CountType(tm[k], type)

\* this step puts exactly one message on the way to the content script of
\* tab k, on a port of that content script or as a one-shot message to the
\* tab, and changes no other outgoing queue
SentToAgent(k, message) ==
    \/ /\ \E q \in AgentPorts(k) : fromBg' = [fromBg EXCEPT ![q] = Append(@, message)]
       /\ tabMsgs' = tabMsgs
    \/ /\ fromBg' = fromBg
       /\ tabMsgs' = [tabMsgs EXCEPT ![k] = Append(@, message)]

\* this step sends nothing
SentNothing == fromBg' = fromBg /\ tabMsgs' = tabMsgs

\* the agent of tab t is idle and has no overlay in the document
AgentIdleNoOverlay(a) == ~a.isSelectionMode /\ ~a.listeners /\ a.overlay = "null"

\* ------------------------------------------------------------------ C1
\* C1: every key has at most one inspector channel and at most one agent
\* channel in the maps of the background, and a step that announces a port
\* for a key (DEVTOOLS_CONNECTED on a port that still has initListener, or
\* the connect of a content-script port) leaves that port as the only
\* channel of its role stored for the key.
C1_OneChannelPerKey ==
    /\ [](\A k \in Tabs :
            /\ Cardinality({e \in panelConnections : e[1] = k}) <= 1
            /\ Cardinality({e \in contentConnections : e[1] = k}) <= 1)
    /\ [][\A p \in PortIds :
            /\ (/\ BgOnMessage(p)
                /\ p \in initListener
                /\ BgHead(p).type = "DEVTOOLS_CONNECTED"
                /\ BgHead(p).tabId # NoTab)
               => {e \in panelConnections' : e[1] = BgHead(p).tabId}
                      = {<<BgHead(p).tabId, p>>}
            /\ (BgOnConnect(p) /\ IsContentPort(p))
               => {e \in contentConnections' : e[1] = PortTab(p)} = {<<PortTab(p), p>>}
         ]_vars

\* a run from the cold start in which two connected inspector ports have
\* announced key 1 and the map holds the one that announced last
C1_Replaced ==
    /\ ~agent[2].loaded
    /\ \E p, q \in PortIds :
          /\ p # q /\ IsPanelPort(p) /\ IsPanelPort(q)
          /\ {p, q} \subseteq bgConnected
          /\ discTab[p] = 1 /\ discTab[q] = 1
          /\ panelConnections = {<<1, q>>}

C3_InspectorClosure ==
    [][\A p \in PortIds, k \in Tabs :
            (<<k, p>> \in panelConnections /\ BgOnDisconnect(p))
            => /\ panelConnections' = MapDelete(panelConnections, k)
               /\ contentConnections' = contentConnections
               /\ MapHas(contentConnections, k)
                  => /\ fromBg' = [fromBg EXCEPT ![MapGet(contentConnections, k)] =
                                      Append(@, Msg("DEVTOOLS_DISCONNECTED", k))]
                     /\ tabMsgs' = tabMsgs
      ]_vars

\* the inspector entry of key 1 is gone, the teardown is on the agent
\* channel of key 1, and key 2 still has both entries
C3_Closed ==
    /\ ~MapHas(panelConnections, 1) /\ ~devtools[1].open
    /\ MapHas(contentConnections, 1)
    /\ CountType(fromBg[MapGet(contentConnections, 1)], "DEVTOOLS_DISCONNECTED") > 0
    /\ MapHas(panelConnections, 2) /\ MapHas(contentConnections, 2)

\* ------------------------------------------------------------------ C4
\* C4: when DevTools of tab 1, whose DevTools page and panel page have both
\* announced key 1, closes and nothing else has happened, at most one
\* DEVTOOLS_DISCONNECTED is on its way to the agent of key 1, as after a
\* single announcement.
C4_SingleTeardownAfterClose ==
    (events = 1 /\ ~devtools[1].open)
    => AgentBound(fromBg, tabMsgs, 1, "DEVTOOLS_DISCONNECTED") <= 1

\* ------------------------------------------------------------------ C5
\* C5: the step in which the background sees the agent channel registered
\* for key k close deletes the agent entry of k and nothing else: the
\* inspector map is unchanged and no message is sent; and a content-script
\* port that connects for a key without an agent entry becomes its entry.
C5_AgentClosure ==
    [][\A p \in PortIds :
          /\ \A k \in Tabs :
                (<<k, p>> \in contentConnections /\ BgOnDisconnect(p))
                => /\ contentConnections' = MapDelete(contentConnections, k)
                   /\ panelConnections' = panelConnections
                   /\ SentNothing
          /\ (/\ BgOnConnect(p) /\ IsContentPort(p)
              /\ ~MapHas(contentConnections, PortTab(p)))
             => contentConnections' = contentConnections \cup {<<PortTab(p), p>>}
      ]_vars

\* the agent channel of key 1 has closed under a live page: its entry is
\* gone, the inspector entry of key 1 and the entries of key 2 are there
C5_AgentGone ==
    /\ events > 0
    /\ agent[1].loaded /\ devtools[1].open
    /\ ~MapHas(contentConnections, 1) /\ MapHas(panelConnections, 1)
    /\ \A p \in AgentPorts(1) : p \notin bgConnected /\ toBg[p] = <<>>
    /\ MapHas(contentConnections, 2)

\* ------------------------------------------------------------------ C6
\* C6: the step in which the background handles an ELEMENT_SELECTED of the
\* content script of tab k, arrived on its port or as a one-shot message,
\* while an inspector channel is registered for k, appends that message
\* once to the registered channel and sends nothing else.
C6_SelectionForwardedOnce ==
    [][/\ \A p \in PortIds :
            (/\ BgOnMessage(p) /\ IsContentPort(p)
             /\ BgHead(p).type = "ELEMENT_SELECTED"
             /\ MapHas(panelConnections, PortTab(p)))
            => /\ fromBg' = [fromBg EXCEPT ![MapGet(panelConnections, PortTab(p))] =
                                Append(@, BgHead(p))]
               /\ tabMsgs' = tabMsgs
       /\ \A t \in Tabs :
            (/\ BgOnRuntimeMessage(t)
             /\ Head(rtMsgs[t]).type = "ELEMENT_SELECTED"
             /\ MapHas(panelConnections, t))
            => /\ fromBg' = [fromBg EXCEPT ![MapGet(panelConnections, t)] =
                                Append(@, Head(rtMsgs[t]))]
               /\ tabMsgs' = tabMsgs
      ]_vars

\* a selection that travelled as a one-shot message is on the inspector
\* channel registered for key 1
C6_ForwardedFromFallback ==
    /\ MapHas(panelConnections, 1)
    /\ \E i \in DOMAIN fromBg[MapGet(panelConnections, 1)] :
          LET m == fromBg[MapGet(panelConnections, 1)][i]
          IN m.type = "ELEMENT_SELECTED" /\ m.via = "runtime"

\* ------------------------------------------------------------------ C7
ToAgentTypes == {"PANEL_SHOWN", "PANEL_HIDDEN", "START_SELECTION", "STOP_SELECTION"}

\* what the agent is sent for a message of the inspector
Corresponding(message) ==
    CASE message.type = "PANEL_SHOWN" -> Msg("DEVTOOLS_ACTIVE", message.tabId)
      [] message.type = "PANEL_HIDDEN" -> Msg("DEVTOOLS_INACTIVE", message.tabId)
      [] message.type = "START_SELECTION" -> Msg("START_SELECTION", NoTab)
      [] message.type = "STOP_SELECTION" -> Msg("STOP_SELECTION", NoTab)

\* C7: the step in which the background handles a PANEL_SHOWN, PANEL_HIDDEN,
\* START_SELECTION or STOP_SELECTION that an inspector port sent with key k
\* puts exactly one message on its way to the agent of k, the corresponding
\* DEVTOOLS_ACTIVE, DEVTOOLS_INACTIVE, START_SELECTION or STOP_SELECTION,
\* and sends nothing to anybody else.
C7_OneMessageTowardAgent ==
    [][\A p \in PortIds :
            (/\ BgOnMessage(p) /\ IsPanelPort(p)
             /\ BgHead(p).type \in ToAgentTypes
             /\ BgHead(p).tabId # NoTab)
            => SentToAgent(BgHead(p).tabId, Corresponding(BgHead(p)))
      ]_vars

\* START_SELECTION of the inspector of key 1 is on the agent channel of
\* key 1 while the agent of key 2 is registered and is sent nothing
C7_StartForwarded ==
    /\ MapHas(contentConnections, 1) /\ MapHas(contentConnections, 2)
    /\ CountType(fromBg[MapGet(contentConnections, 1)], "START_SELECTION") = 1
    /\ fromBg[MapGet(contentConnections, 2)] = <<>> /\ tabMsgs[2] = <<>>

\* ------------------------------------------------------------------ C8
ScreenshotResponses ==
    {CapMsg("SCREENSHOT_ERROR", NoTab, n) : n \in 0..(MaxEvents + 1)}
        \cup {CapMsg("SCREENSHOT_CAPTURED", t, n) : t \in Tabs, n \in 0..(MaxEvents + 1)}

\* a step of a platform callback that ends job i
CaptureEnds(i) ==
    /\ \E ok \in BOOLEAN : TabsGetCallback(i, ok) \/ CaptureVisibleTabCallback(i, ok)
    /\ Len(captures') < Len(captures)

\* C8, as stated: every capture request gets exactly one response, on the
\* channel that sent it: the step that ends a capture job appends one
\* SCREENSHOT_CAPTURED or SCREENSHOT_ERROR to the requesting port.
C8_AlwaysOneResponse ==
    [][\A i \in DOMAIN captures :
            CaptureEnds(i)
            => \E r \in ScreenshotResponses :
                  fromBg' = [fromBg EXCEPT ![captures[i].port] = Append(@, r)]
      ]_vars

\* C8, amended: a CAPTURE_SCREENSHOT with a tab id starts one capture job
\* for the port it arrived on and sends nothing; a callback that does not
\* end the job sends nothing; the step that ends the job appends exactly one
\* SCREENSHOT_CAPTURED or SCREENSHOT_ERROR to the requesting port when the
\* background has not seen that port disconnect, and sends nothing at all
\* when it has.
C8_OneResponseWhileConnected ==
    [][/\ \A p \in PortIds :
            (/\ BgOnMessage(p)
             /\ BgHead(p).type = "CAPTURE_SCREENSHOT" /\ BgHead(p).tabId # NoTab)
            => /\ captures' = Append(captures, [tabId |-> BgHead(p).tabId, port |-> p,
                                                stage |-> "get", sel |-> BgHead(p).sel])
               /\ SentNothing
       /\ \A i \in DOMAIN captures :
            /\ (/\ \E ok \in BOOLEAN : TabsGetCallback(i, ok) \/ CaptureVisibleTabCallback(i, ok)
                /\ ~CaptureEnds(i))
               => SentNothing
            /\ CaptureEnds(i)
               => /\ tabMsgs' = tabMsgs
                  /\ IF captures[i].port \in bgConnected
                     THEN \E r \in ScreenshotResponses :
                            fromBg' = [fromBg EXCEPT ![captures[i].port] = Append(@, r)]
                     ELSE fromBg' = fromBg
      ]_vars

\* a response is on the panel port that asked, and on no other port
C8_ResponseOnRequester ==
    \E p \in PortIds :
        /\ p[2] = "panel" /\ ports[p].state = "open"
        /\ fromBg[p] # <<>> /\ Head(fromBg[p]) \in ScreenshotResponses
        /\ \A q \in PortIds \ {p} : \A i \in DOMAIN fromBg[q] :
              fromBg[q][i] \notin ScreenshotResponses

\* ------------------------------------------------------------------ C9
\* C9: the step in which the background handles a SELECTION_CANCELED that
\* the content script of tab k posted, while an inspector channel is
\* registered for k, appends the notice to that channel.
C9_CanceledRelayed ==
    [][\A p \in PortIds :
            (/\ BgOnMessage(p) /\ IsContentPort(p)
             /\ BgHead(p).type = "SELECTION_CANCELED"
             /\ MapHas(panelConnections, PortTab(p)))
            => fromBg'[MapGet(panelConnections, PortTab(p))]
                   = Append(fromBg[MapGet(panelConnections, PortTab(p))], BgHead(p))
      ]_vars

\* ------------------------------------------------------------------ C10
\* the key an ELEMENT_SELECTED on port p is routed to
SelectionKey(p) == IF BgHead(p).tabId # NoTab THEN BgHead(p).tabId ELSE SenderTab(p)

\* the background handles a message for the inspector of a key that has no
\* inspector entry
ToUnregisteredInspector ==
    \/ \E p \in PortIds :
          /\ BgOnMessage(p) /\ BgHead(p).type = "ELEMENT_SELECTED"
          /\ SelectionKey(p) # NoTab /\ ~MapHas(panelConnections, SelectionKey(p))
    \/ \E t \in Tabs :
          /\ BgOnRuntimeMessage(t) /\ Head(rtMsgs[t]).type = "ELEMENT_SELECTED"
          /\ ~MapHas(panelConnections, t)

\* the background handles, on port p, a message for the agent of a key
\* that has no agent entry
ToUnregisteredAgent(p) ==
    /\ BgOnMessage(p)
    /\ BgHead(p).type \in ToAgentTypes /\ BgHead(p).tabId # NoTab
    /\ ~MapHas(contentConnections, BgHead(p).tabId)

\* the background sees inspector port p, bound to a key that has no agent
\* entry, close
TeardownToUnregisteredAgent(p) ==
    /\ BgOnDisconnect(p) /\ IsPanelPort(p)
    /\ discTab[p] # NoTab /\ ~MapHas(contentConnections, discTab[p])

\* C10, as stated: a message routed toward an inspector or an agent of a
\* key that has no channel of that role is sent to nobody.
C10_DroppedWithoutChannel ==
    [][/\ ToUnregisteredInspector => SentNothing
       /\ \A p \in PortIds :
            (ToUnregisteredAgent(p) \/ TeardownToUnregisteredAgent(p)) => SentNothing
      ]_vars

\* C10, amended: a message routed toward the inspector of a key that has no
\* inspector entry is sent to nobody; a message routed toward the agent of a
\* key k that has no agent entry is sent once, as a one-shot message to tab
\* k, and on no port; in both cases the maps and the capture jobs of the
\* background are unchanged, so nothing is kept for a later registration.
C10_DropOrOneShot ==
    [][/\ ToUnregisteredInspector
          => SentNothing /\ UNCHANGED <<panelConnections, contentConnections, captures>>
       /\ \A p \in PortIds :
            ToUnregisteredAgent(p)
            => /\ fromBg' = fromBg
               /\ tabMsgs' = [tabMsgs EXCEPT ![BgHead(p).tabId] =
                                  Append(@, Corresponding(BgHead(p)))]
               /\ UNCHANGED <<panelConnections, contentConnections, captures>>
       /\ \A p \in PortIds :
            TeardownToUnregisteredAgent(p)
            => /\ fromBg' = fromBg
               /\ tabMsgs' = [tabMsgs EXCEPT ![discTab[p]] =
                                  Append(@, Msg("DEVTOOLS_DISCONNECTED", discTab[p]))]
               /\ UNCHANGED <<contentConnections, captures>>
      ]_vars

\* START_SELECTION is on its way as a one-shot message to tab 1, whose
\* loaded content script has no agent entry and no port
C10_OneShotInFlight ==
    /\ ~MapHas(contentConnections, 1)
    /\ agent[1].loaded /\ agent[1].port = NoPort /\ ~agent[1].isSelectionMode
    /\ tabMsgs[1] # <<>> /\ Head(tabMsgs[1]).type = "START_SELECTION"

\* ------------------------------------------------------------------ C11
\* the types the listeners of the background act on
RecognizedTypes ==
    {"DEVTOOLS_CONNECTED", "CONTENT_SCRIPT_READY", "PANEL_SHOWN", "PANEL_HIDDEN",
     "ELEMENT_SELECTED", "START_SELECTION", "STOP_SELECTION", "CAPTURE_SCREENSHOT"}

\* C11: the step in which the background handles a message whose type is
\* none of the types it acts on sends nothing on any port or to any tab,
\* leaves both maps as they were and starts no capture job; the listener
\* returns normally, so the port stays connected with its listeners.
C11_UnknownTypeDropped ==
    [][\A p \in PortIds :
            (BgOnMessage(p) /\ BgHead(p).type \notin RecognizedTypes)
            => /\ SentNothing
               /\ UNCHANGED <<panelConnections, contentConnections, captures>>
               /\ UNCHANGED <<bgConnected, initListener, discTab>>
      ]_vars

\* a message of an unknown type is the next one the background handles,
\* from a connected port of tab 1 whose key has both channels registered
C11_UnknownTypePending ==
    \E p \in PortIds :
        /\ p \in bgConnected /\ IsBgMessage(p) /\ BgHead(p).type = "UNKNOWN_TYPE"
        /\ MapHas(panelConnections, PortTab(p)) /\ MapGet(contentConnections, PortTab(p)) = p

\* ------------------------------------------------- observations of the agent
\* the step in which the content script of tab t handles a message of a type
AgentHandles(t, type) ==
    \/ \E p \in AgentPorts(t) : AgentPortMessage(p) /\ ClientHead(p).type = type
    \/ AgentTabMessage(t) /\ agent[t].loaded /\ Head(tabMsgs[t]).type = type

\* messages of one type the content script of tab t has sent and the
\* background has not handled yet
AgentSent(tb, rt, t, type) == SumCount(AgentPorts(t), tb, type) + CountType(rt[t], type)

\* this step sends nothing to the background
EmitsNothing == toBg' = toBg /\ rtMsgs' = rtMsgs

\* Idle: not selecting, no listeners, no cursor style, overlay not displayed
AgentIdle(a) == ~a.isSelectionMode /\ ~a.listeners /\ a.cursorStyles = 0 /\ a.overlay # "shown"

\* ------------------------------------------------------------------ C12
\* C12: the content script is Idle when init() has run and after it handles
\* STOP_SELECTION, DEVTOOLS_INACTIVE or DEVTOOLS_DISCONNECTED and after an
\* Escape keypress; handling STOP_SELECTION while Idle changes nothing of
\* the agent or its page and sends nothing.
C12_IdleAfterCancellation ==
    [][\A t \in Tabs :
          /\ ContentInit(t) => AgentIdle(agent'[t])
          /\ \A type \in {"STOP_SELECTION", "DEVTOOLS_INACTIVE", "DEVTOOLS_DISCONNECTED"} :
                AgentHandles(t, type) => AgentIdle(agent'[t])
          /\ AgentKeyDown(t, "Escape") => AgentIdle(agent'[t])
          /\ (AgentHandles(t, "STOP_SELECTION") /\ AgentIdle(agent[t]))
             => agent'[t] = agent[t] /\ EmitsNothing
      ]_vars

\* ------------------------------------------------------------------ C13
\* the rectangle of the element as the page shows it when scrolled by y
RectAtScroll(y) ==
    [x |-> ElementBox.left, y |-> ElementBox.top,
     width |-> ElementBox.width, height |-> ElementBox.height,
     viewportX |-> ElementBox.left, viewportY |-> ElementBox.top - y]

\* C13: in selection mode a hover on the element puts the overlay on the
\* element's rectangle, and a click on the element sends one
\* ELEMENT_SELECTED (on the port, or as a one-shot message when the agent
\* has no port) whose rect is the element's rectangle at the scroll offset
\* of the click, and leaves the agent Idle.
C13_ClickReportsRect ==
    [][\A t \in Tabs :
          /\ (AgentMouseOver(t, "element") /\ agent[t].isSelectionMode)
             => /\ agent'[t].overlay = "shown"
                /\ agent'[t].overlayStyle = ElementBox
          /\ (AgentClick(t, "element") /\ agent[t].isSelectionMode)
             => /\ AgentIdle(agent'[t])
                /\ LET a == agent[t]
                       m == [v \in {"port", "runtime"} |->
                               SelMsg(a.currentTabId, nextSel, v, RectAtScroll(a.scrollY))]
                   IN IF a.port = NoPort
                      THEN /\ rtMsgs' = [rtMsgs EXCEPT ![t] = Append(@, m["runtime"])]
                           /\ toBg' = toBg
                      ELSE /\ rtMsgs' = rtMsgs
                           /\ ports[a.port].state = "open"
                              => toBg' = [toBg EXCEPT ![a.port] = Append(@, m["port"])]
      ]_vars

\* after a hover and a scroll, a click has sent the rectangle of the
\* scrolled page, and the agent is Idle with its overlay hidden
C13_ClickAfterScroll ==
    /\ AgentIdle(agent[1]) /\ agent[1].overlay = "hidden"
    /\ agent[1].overlayStyle = ElementBox
    /\ agent[1].scrollY # 0
    /\ \E p \in AgentPorts(1) : \E i \in DOMAIN toBg[p] :
          /\ toBg[p][i].type = "ELEMENT_SELECTED"
          /\ toBg[p][i].rect = RectAtScroll(agent[1].scrollY)

\* ------------------------------------------------------------------ C14
\* C14: an Escape keypress while the agent is in selection mode sends
\* exactly one SELECTION_CANCELED and no ELEMENT_SELECTED and leaves the
\* agent Idle.
C14_EscapeCancels ==
    [][\A t \in Tabs :
          (AgentKeyDown(t, "Escape") /\ agent[t].isSelectionMode)
          => /\ AgentSent(toBg', rtMsgs', t, "SELECTION_CANCELED")
                   = AgentSent(toBg, rtMsgs, t, "SELECTION_CANCELED") + 1
             /\ AgentSent(toBg', rtMsgs', t, "ELEMENT_SELECTED")
                   = AgentSent(toBg, rtMsgs, t, "ELEMENT_SELECTED")
             /\ AgentIdle(agent'[t])
      ]_vars

\* ------------------------------------------------------------------ C15
\* C15: the step in which the agent handles STOP_SELECTION while in
\* selection mode leaves it Idle and sends nothing to the background.
C15_StopWhileArmed ==
    [][\A t \in Tabs :
          (AgentHandles(t, "STOP_SELECTION") /\ agent[t].isSelectionMode)
          => AgentIdle(agent'[t]) /\ EmitsNothing
      ]_vars

\* STOP_SELECTION is the next message of an agent in selection mode whose
\* overlay is displayed
C15_StopPending ==
    \E p \in AgentPorts(1) :
        /\ agent[1].port = p /\ agent[1].isSelectionMode /\ agent[1].overlay = "shown"
        /\ fromBg[p] # <<>> /\ Head(fromBg[p]).type = "STOP_SELECTION"

\* ------------------------------------------------------------------ C16
\* C16: a click that confirms a target does not send the selection result
\* in the click step: the agent stays out of Idle with the result unsent,
\* so that a STOP_SELECTION, an Escape keypress or a DEVTOOLS_DISCONNECTED
\* that comes next abandons the selection, leaving the agent Idle with no
\* ELEMENT_SELECTED sent for the click.
C16_CancelAbandonsClick ==
    [][\A t \in Tabs :
          /\ (AgentClick(t, "element") /\ agent[t].isSelectionMode)
             => EmitsNothing /\ ~AgentIdle(agent'[t])
          /\ (\/ AgentHandles(t, "STOP_SELECTION")
              \/ AgentHandles(t, "DEVTOOLS_DISCONNECTED")
              \/ AgentKeyDown(t, "Escape"))
             => EmitsNothing /\ AgentIdle(agent'[t])
      ]_vars

\* ------------------------------------------------------------------ C17
\* ports this step opens
Opened == {q \in PortIds : ports[q].state # "open" /\ ports'[q].state = "open"}

\* C17: when the content script of tab t sees its port disconnect while in
\* selection mode, it connects again exactly once if the port was the one
\* of init() and not at all if it was the reconnected one; when it sees a
\* port disconnect while Idle, it connects no port and removes its overlay
\* from the document.
C17_ReconnectPolicy ==
    [][\A p \in PortIds, ok \in BOOLEAN :
          AgentOnDisconnect(p, ok)
          => LET a == agent[PortTab(p)]
             IN IF a.isSelectionMode
                THEN /\ ports[p].gen = "init"
                        => Opened = IF ok THEN {agent'[PortTab(p)].port} ELSE {}
                     /\ ports[p].gen = "reconnect" => Opened = {}
                ELSE /\ Opened = {}
                     /\ agent'[PortTab(p)].overlay = "null"
      ]_vars

\* ------------------------------------------------ panel.js: cropScreenshot
\* The runs of a single function start with no page loaded and no message
\* anywhere.
pagesVars == <<bgVars, ports, toBg, fromBg, tabMsgs, rtMsgs, agent, devtools,
               panel, nextSel, events>>

PagesIdle ==
    /\ ColdStart
    /\ captures = <<>>
    /\ toBg = [p \in PortIds |-> <<>>]
    /\ fromBg = [p \in PortIds |-> <<>>]
    /\ tabMsgs = [t \in Tabs |-> <<>>]
    /\ rtMsgs = [t \in Tabs |-> <<>>]
    /\ nextSel = 1
    /\ events = 0

MaxImage == 4           \* raw images are 1..MaxImage pixels wide and high
MaxOrigin == 5          \* viewportX and viewportY run from -MaxSide, where
                        \* the element ends left of or above the viewport,
                        \* to MaxOrigin, past the image at every factor
MaxSide == 3            \* rect.width and rect.height are 0..MaxSide

\* window.devicePixelRatio || 1
PixelRatios == {1, 2}

Images == [width : 1..MaxImage, height : 1..MaxImage]
Rects ==
    [viewportX : (0 - MaxSide)..MaxOrigin, viewportY : (0 - MaxSide)..MaxOrigin,
     width : 0..MaxSide, height : 0..MaxSide]

\* variant: the origin is clamped into the image and the size is cut at the
\* image's edge from the clamped origin
cropScreenshot_ClampedOrigin(img, rect, dpr) ==
    LET Clamp(v, size) == IF v < 0 THEN 0 ELSE IF v > size THEN size ELSE v
        Least(a, b) == IF a < b THEN a ELSE b
        actualCropX == Clamp(rect.viewportX * dpr, img.width)
        actualCropY == Clamp(rect.viewportY * dpr, img.height)
        actualCropWidth == Least(rect.width * dpr, img.width - actualCropX)
        actualCropHeight == Least(rect.height * dpr, img.height - actualCropY)
    IN  [outcome |-> "resolved",
         canvas |-> [width |-> actualCropWidth, height |-> actualCropHeight],
         source |-> [x |-> actualCropX, y |-> actualCropY,
                     width |-> actualCropWidth, height |-> actualCropHeight]]

\* what img.onload computes: the canvas it sizes, the source rectangle it
\* hands to drawImage, and the promise it resolves
cropScreenshot(img, rect, dpr) ==
    LET cropWidth == rect.width * dpr
        cropHeight == rect.height * dpr
    IN  [outcome |-> "resolved",
         canvas |-> [width |-> cropWidth, height |-> cropHeight],
         source |-> [x |-> rect.viewportX * dpr, y |-> rect.viewportY * dpr,
                     width |-> cropWidth, height |-> cropHeight]]

\* img.onerror
cropLoadFailed ==
    [outcome |-> "rejected",
     canvas |-> [width |-> 0, height |-> 0],
     source |-> [x |-> 0, y |-> 0, width |-> 0, height |-> 0]]

CropLoading(img, rect, dpr) ==
    [phase |-> "loading", img |-> img, rect |-> rect, dpr |-> dpr,
     result |-> cropLoadFailed, editor |-> FALSE]

\* handleScreenshotCaptured has called cropScreenshot(message.dataUrl,
\* pendingElement.rect) and the image is loading
InitCrop ==
    /\ PagesIdle
    /\ tokenRun = NoRun
    /\ guessRun = NoRun /\ lineageRun = NoRun /\ frameworkRun = NoRun
    /\ library = NoRun
    /\ \E img \in Images, rect \in Rects, dpr \in PixelRatios :
          cropRun = CropLoading(img, rect, dpr)

\* img.onload, then the .then of handleScreenshotCaptured: showEditor()
CropImageLoad ==
    /\ cropRun.phase = "loading"
    /\ LET r == cropScreenshot(cropRun.img, cropRun.rect, cropRun.dpr)
       IN cropRun' = [cropRun EXCEPT !.phase = "settled", !.result = r,
                                     !.editor = (r.outcome = "resolved")]
    /\ UNCHANGED <<pagesVars, tokenRun, guessRun, lineageRun, frameworkRun,
                   library>>

\* img.onerror, then the .catch of handleScreenshotCaptured
CropImageError ==
    /\ cropRun.phase = "loading"
    /\ cropRun' = [cropRun EXCEPT !.phase = "settled",
                                  !.result = cropLoadFailed]
    /\ UNCHANGED <<pagesVars, tokenRun, guessRun, lineageRun, frameworkRun,
                   library>>

NextCrop ==
    \/ CropImageLoad
    \/ CropImageError

SpecCrop == InitCrop /\ [][NextCrop]_vars

\* the crop the image allows: the origin scaled and clamped into the image,
\* the size scaled and cut at the image's edge
ClampedOrigin(v, d, size) ==
    LET scaled == v * d
    IN IF scaled < 0 THEN 0 ELSE IF scaled > size THEN size ELSE scaled

ClampedSide(side, d, size, origin) ==
    IF side * d < size - origin THEN side * d ELSE size - origin

LoadSettled == cropRun.phase = "settled" /\ cropRun.result # cropLoadFailed

\* ------------------------------------------------------------------ C18
\* C18: the source rectangle handed to drawImage starts inside the image,
\* at an origin between 0 and the image's width and height, and is no wider
\* than min(w*d, W - x) and no higher than min(h*d, H - y), for the clamped
\* origin (x, y) it starts at.
C18_CropWithinImage ==
    LoadSettled
    => LET src == cropRun.result.source
           img == cropRun.img
       IN /\ src.x >= 0 /\ src.x <= img.width
          /\ src.y >= 0 /\ src.y <= img.height
          /\ src.width <= ClampedSide(cropRun.rect.width, cropRun.dpr,
                                      img.width, src.x)
          /\ src.height <= ClampedSide(cropRun.rect.height, cropRun.dpr,
                                       img.height, src.y)

\* ------------------------------------------------------------------ C19
\* the clamped crop of this run has no area
EmptyCrop ==
    LET img == cropRun.img
        x == ClampedOrigin(cropRun.rect.viewportX, cropRun.dpr, img.width)
        y == ClampedOrigin(cropRun.rect.viewportY, cropRun.dpr, img.height)
    IN \/ ClampedSide(cropRun.rect.width, cropRun.dpr, img.width, x) <= 0
       \/ ClampedSide(cropRun.rect.height, cropRun.dpr, img.height, y) <= 0

\* C19: a crop whose clamped width or height is zero or less settles as a
\* rejection, and the editor is not shown for it.
C19_EmptyCropRejected ==
    (cropRun.phase = "settled" /\ EmptyCrop)
    => /\ cropRun.result.outcome = "rejected"
       /\ ~cropRun.editor

\* ---------------------------------------------- content.js: extractTokens
\* What window.getComputedStyle(element) can hold for the properties that
\* extractTokens reads: the value the code compares with, another value, and
\* the empty string that a property without a resolved value reads as (an
\* element that has left the document).
ComputedStyles ==
    LET ColorValues == {"", "rgba(0, 0, 0, 0)", "transparent", "rgb(255, 0, 0)"}
        LengthValues == {"", "0px", "4px"}
    IN  [color : ColorValues, backgroundColor : ColorValues,
         borderColor : ColorValues,
         fontFamily : {"Arial"}, fontSize : {"16px"}, fontWeight : {"400"},
         lineHeight : {"", "normal", "20px"},
         paddingTop : {"", "8px"}, paddingRight : {"0px"},
         paddingBottom : {"0px"}, paddingLeft : {"0px"},
         marginTop : {"0px"}, marginRight : {"0px"},
         marginBottom : {"0px"}, marginLeft : {"0px"},
         borderRadius : LengthValues, borderWidth : LengthValues,
         borderStyle : {"", "none", "solid"},
         boxShadow : {"", "none", "rgba(0, 0, 0, 0.5) 0px 1px 2px 0px"},
         opacity : {"", "1", "0.5"}]

\* JavaScript truthiness of a string
Truthy(value) == value # ""
\* a || b on strings
OrElse(a, b) == IF Truthy(a) THEN a ELSE b
\* tokens.opacity: null
NullToken == "null"

\* the tokens object as extractTokens declares it
EmptyTokens ==
    [colors |-> <<>>, fonts |-> <<>>, spacing |-> <<>>, border |-> <<>>,
     shadows |-> <<>>, opacity |-> NullToken]

\* one push of { type, value } under the code's condition
PushIf(cond, type, value) ==
    IF cond THEN <<[type |-> type, value |-> value]>> ELSE <<>>

colorTokens(cs) ==
    LET visible(v) == Truthy(v) /\ v # "rgba(0, 0, 0, 0)" /\ v # "transparent"
    IN  PushIf(visible(cs.color), "color", cs.color)
        \o PushIf(visible(cs.backgroundColor), "background-color",
                  cs.backgroundColor)
        \o PushIf(visible(cs.borderColor), "border-color", cs.borderColor)

fontTokens(cs) ==
    PushIf(Truthy(cs.fontFamily), "font-family", cs.fontFamily)
    \o PushIf(Truthy(cs.fontSize), "font-size", cs.fontSize)
    \o PushIf(Truthy(cs.fontWeight), "font-weight", cs.fontWeight)
    \o PushIf(Truthy(cs.lineHeight) /\ cs.lineHeight # "normal",
              "line-height", cs.lineHeight)

spacingTokens(cs) ==
    [padding |-> [top |-> OrElse(cs.paddingTop, "0px"),
                  right |-> OrElse(cs.paddingRight, "0px"),
                  bottom |-> OrElse(cs.paddingBottom, "0px"),
                  left |-> OrElse(cs.paddingLeft, "0px")],
     margin |-> [top |-> OrElse(cs.marginTop, "0px"),
                 right |-> OrElse(cs.marginRight, "0px"),
                 bottom |-> OrElse(cs.marginBottom, "0px"),
                 left |-> OrElse(cs.marginLeft, "0px")]]

\* tokens.border: an object with the keys the code assigns
borderTokens(cs) ==
    LET keys == {k \in {"radius", "width", "style"} :
                    \/ k = "radius" /\ Truthy(cs.borderRadius)
                                    /\ cs.borderRadius # "0px"
                    \/ k = "width" /\ Truthy(cs.borderWidth)
                                   /\ cs.borderWidth # "0px"
                    \/ k = "style" /\ Truthy(cs.borderStyle)
                                   /\ cs.borderStyle # "none"}
    IN  [k \in keys |-> CASE k = "radius" -> cs.borderRadius
                          [] k = "width" -> cs.borderWidth
                          [] k = "style" -> cs.borderStyle]

shadowTokens(cs) ==
    IF Truthy(cs.boxShadow) /\ cs.boxShadow # "none"
    THEN <<cs.boxShadow>> ELSE <<>>

opacityToken(cs) ==
    IF Truthy(cs.opacity) /\ cs.opacity # "1" THEN cs.opacity ELSE NullToken

\* extractTokens that keeps the opacity whatever it is
extractTokens_OpacityKept(cs) ==
    [colors |-> colorTokens(cs), fonts |-> fontTokens(cs),
     spacing |-> spacingTokens(cs), border |-> borderTokens(cs),
     shadows |-> shadowTokens(cs), opacity |-> cs.opacity]

extractTokens(cs) ==
    [colors |-> colorTokens(cs), fonts |-> fontTokens(cs),
     spacing |-> spacingTokens(cs), border |-> borderTokens(cs),
     shadows |-> shadowTokens(cs), opacity |-> opacityToken(cs)]

\* handleClick is about to call extractTokens(e.target)
InitTokens ==
    /\ PagesIdle
    /\ cropRun = NoRun
    /\ guessRun = NoRun /\ lineageRun = NoRun /\ frameworkRun = NoRun
    /\ library = NoRun
    /\ \E cs \in ComputedStyles :
          tokenRun = [phase |-> "called", style |-> cs, tokens |-> EmptyTokens]

ExtractTokens ==
    /\ tokenRun.phase = "called"
    /\ tokenRun' = [tokenRun EXCEPT !.phase = "returned",
                                    !.tokens = extractTokens(tokenRun.style)]
    /\ UNCHANGED <<pagesVars, cropRun, guessRun, lineageRun, frameworkRun,
                   library>>

\* window.getComputedStyle(element) throws: the catch of extractTokens logs
\* and the tokens are returned as they were declared
ExtractTokensThrows ==
    /\ tokenRun.phase = "called"
    /\ tokenRun' = [tokenRun EXCEPT !.phase = "caught", !.tokens = EmptyTokens]
    /\ UNCHANGED <<pagesVars, cropRun, guessRun, lineageRun, frameworkRun,
                   library>>

NextTokens ==
    \/ ExtractTokens
    \/ ExtractTokensThrows

SpecTokens == InitTokens /\ [][NextTokens]_vars

\* ------------------------------------------------------------------ C20
\* the fields of the Token Set that have an absence value
OmittableFields ==
    {"color", "background-color", "border-color", "line-height",
     "border-radius", "border-width", "border-style", "shadow", "opacity"}

\* the computed value a field is read from
SourceValue(cs, f) ==
    CASE f = "color" -> cs.color
      [] f = "background-color" -> cs.backgroundColor
      [] f = "border-color" -> cs.borderColor
      [] f = "line-height" -> cs.lineHeight
      [] f = "border-radius" -> cs.borderRadius
      [] f = "border-width" -> cs.borderWidth
      [] f = "border-style" -> cs.borderStyle
      [] f = "shadow" -> cs.boxShadow
      [] f = "opacity" -> cs.opacity

\* the documented absence values, as the strings the platform resolves to
AbsenceValues(f) ==
    CASE f \in {"color", "background-color", "border-color"}
            -> {"rgba(0, 0, 0, 0)", "transparent"}
      [] f = "line-height" -> {"normal"}
      [] f \in {"border-radius", "border-width"} -> {"0px"}
      [] f \in {"border-style", "shadow"} -> {"none"}
      [] f = "opacity" -> {"1"}

\* the values the Token Set holds for a field: none when it is omitted
EmittedValues(tokens, f) ==
    CASE f \in {"color", "background-color", "border-color"}
            -> {tokens.colors[i].value : 
                  i \in {j \in DOMAIN tokens.colors : tokens.colors[j].type = f}}
      [] f = "line-height"
            -> {tokens.fonts[i].value :
                  i \in {j \in DOMAIN tokens.fonts : tokens.fonts[j].type = f}}
      [] f = "border-radius"
            -> {tokens.border[k] : k \in DOMAIN tokens.border \cap {"radius"}}
      [] f = "border-width"
            -> {tokens.border[k] : k \in DOMAIN tokens.border \cap {"width"}}
      [] f = "border-style"
            -> {tokens.border[k] : k \in DOMAIN tokens.border \cap {"style"}}
      [] f = "shadow" -> {tokens.shadows[i] : i \in DOMAIN tokens.shadows}
      [] f = "opacity" -> {tokens.opacity} \ {NullToken}

MaxChildren == 5        \* elements have 0..MaxChildren direct children

StructuralClasses == {"Atom", "Molecule", "Organism", "Template", "Page"}
DocumentRootTag == "html"
TemplateTags == {"body"}
AtomicTags == {"img"}
LandmarkTags == {"header", "nav", "main", "article", "section", "aside", "footer"}
TagNames == {"html", "body", "img", "nav", "div"}

\* what the rules read of an element, and its class attribute, which they
\* do not read
GuessElements ==
    {e \in [tagName : TagNames, children : 0..MaxChildren,
            childTags : 0..MaxChildren, hasText : BOOLEAN,
            childHasChildren : BOOLEAN, className : {"", "card"}] :
        /\ e.children = 0 => e.childTags = 0 /\ ~e.childHasChildren
        /\ e.children > 0 => e.childTags >= 1 /\ e.childTags <= e.children}

\* variant: the landmark rule is tried before the childless rule
guessStructuralClass_LandmarkFirst(e) ==
    IF e.tagName = DocumentRootTag THEN "Page"
    ELSE IF e.tagName \in TemplateTags THEN "Template"
    ELSE IF e.tagName \in LandmarkTags THEN "Organism"
    ELSE IF e.children = 0 /\ (e.hasText \/ e.tagName \in AtomicTags) THEN "Atom"
    ELSE IF e.children >= 5 THEN "Organism"
    ELSE IF e.children >= 2 /\ e.childTags >= 2 THEN "Molecule"
    ELSE IF e.children = 1 /\ e.childHasChildren THEN "Molecule"
    ELSE "Atom"

guessStructuralClass(e) ==
    IF e.tagName = DocumentRootTag THEN "Page"
    ELSE IF e.tagName \in TemplateTags THEN "Template"
    ELSE IF e.children = 0 /\ (e.hasText \/ e.tagName \in AtomicTags) THEN "Atom"
    ELSE IF e.tagName \in LandmarkTags THEN "Organism"
    ELSE IF e.children >= 5 THEN "Organism"
    ELSE IF e.children >= 2 /\ e.childTags >= 2 THEN "Molecule"
    ELSE IF e.children = 1 /\ e.childHasChildren THEN "Molecule"
    ELSE IF e.children = 1 THEN "Atom"
    ELSE "Atom"

Guessed(e) == [phase |-> "returned", element |-> e, class |-> guessStructuralClass(e)]

\* a click has been confirmed on some element and its class guessed
InitGuess ==
    /\ PagesIdle
    /\ cropRun = NoRun /\ tokenRun = NoRun /\ lineageRun = NoRun
    /\ frameworkRun = NoRun /\ library = NoRun
    /\ \E e \in GuessElements : guessRun = Guessed(e)

\* the next confirmed click, on element e
GuessNext(e) ==
    /\ guessRun.phase = "returned"
    /\ guessRun' = Guessed(e)
    /\ UNCHANGED <<pagesVars, cropRun, tokenRun, lineageRun, frameworkRun, library>>

NextGuess == \E e \in GuessElements : GuessNext(e)

SpecGuess == InitGuess /\ [][NextGuess]_vars

\* ------------------------------------------------------------------ C21
\* rule i of the specification matches element e
RuleMatches(i, e) ==
    CASE i = 1 -> e.tagName = DocumentRootTag \/ e.tagName \in TemplateTags
      [] i = 2 -> e.children = 0 /\ (e.hasText \/ e.tagName \in AtomicTags)
      [] i = 3 -> e.tagName \in LandmarkTags
      [] i = 4 -> e.children >= 5
      [] i = 5 -> e.children >= 2 /\ e.childTags >= 2
      [] i = 6 -> e.children = 1
      [] i = 7 -> TRUE

\* the class rule i gives element e
RuleClass(i, e) ==
    CASE i = 1 -> IF e.tagName = DocumentRootTag THEN "Page" ELSE "Template"
      [] i = 2 -> "Atom"
      [] i = 3 -> "Organism"
      [] i = 4 -> "Organism"
      [] i = 5 -> "Molecule"
      [] i = 6 -> IF e.childHasChildren THEN "Molecule" ELSE "Atom"
      [] i = 7 -> "Atom"

FirstRule(e) == CHOOSE i \in 1..7 : RuleMatches(i, e) /\ \A j \in 1..(i - 1) : ~RuleMatches(j, e)

\* the guess is one of the five classes, the one of the first matching rule
FirstMatchWins ==
    /\ guessRun.class \in StructuralClasses
    /\ guessRun.class = RuleClass(FirstRule(guessRun.element), guessRun.element)

SameFour(e1, e2) ==
    /\ e1.tagName = e2.tagName /\ e1.children = e2.children
    /\ e1.childTags = e2.childTags /\ e1.hasText = e2.hasText

PanelHandles(t, type) ==
    \/ \E p \in PortIds :
          /\ PanelPortMessage(p) /\ PortTab(p) = t
          /\ ClientHead(p).type = type
    \/ \E p \in PortIds :
          /\ DevtoolsPortMessage(p) /\ PortTab(p) = t
          /\ devtools[t].panelWindow /\ panel[t].open
          /\ ClientHead(p).type = type

\* capture requests posted and not yet taken by the background
CaptureRequests(tb) == SumCount(PortIds, tb, "CAPTURE_SCREENSHOT")

\* C22: the step in which the panel handles ELEMENT_SELECTED posts exactly
\* one CAPTURE_SCREENSHOT on its port, makes that selection the pending one
\* and starts no crop; no other step posts a capture request; a crop, from
\* which the record in the editor is made, starts only in a step that
\* handles SCREENSHOT_CAPTURED, for the selection pending then; and the
\* editor gets a record only when such a crop settles.
C22_OneRequestPerSelection ==
    [][\A t \in Tabs :
          /\ PanelHandles(t, "ELEMENT_SELECTED")
             => /\ panel[t].port # NoPort
                /\ CountType(toBg'[panel[t].port], "CAPTURE_SCREENSHOT")
                      = CountType(toBg[panel[t].port], "CAPTURE_SCREENSHOT") + 1
                /\ panel'[t].pending # 0
                /\ panel'[t].crops = panel[t].crops
                /\ panel'[t].editor = panel[t].editor
          /\ CaptureRequests(toBg') > CaptureRequests(toBg)
             => \E k \in Tabs : PanelHandles(k, "ELEMENT_SELECTED")
          /\ Len(panel'[t].crops) > Len(panel[t].crops)
             => /\ PanelHandles(t, "SCREENSHOT_CAPTURED")
                /\ panel[t].pending # 0
                /\ panel'[t].crops = Append(panel[t].crops, panel[t].pending)
          /\ (panel'[t].editor # panel[t].editor /\ panel'[t].open)
             => \E i \in DOMAIN panel[t].crops :
                   /\ CropSettled(t, i, TRUE)
                   /\ panel'[t].editor = panel[t].crops[i]
      ]_vars

\* the panel has a pending selection whose one capture request is on its way
\* and has not been answered
C22_RequestInFlight ==
    /\ panel[1].open /\ panel[1].pending # 0
    /\ panel[1].crops = <<>>
    /\ CountType(toBg[panel[1].port], "CAPTURE_SCREENSHOT") = 1
    /\ CaptureRequests(toBg) = 1

\* ------------------------------------------------------------------ C23
\* C23: the step in which the panel handles SCREENSHOT_CAPTURED while it has
\* no pending selection changes nothing of the panel: no crop starts, the
\* editor and the pending selection stay as they are, and nothing is posted.
C23_LateResponseDiscarded ==
    [][\A t \in Tabs :
          (PanelHandles(t, "SCREENSHOT_CAPTURED") /\ panel[t].pending = 0)
          => /\ panel'[t] = panel[t]
             /\ toBg' = toBg
      ]_vars

\* a capture response is the next message of a panel that has no pending
\* selection any more
C23_LateResponsePending ==
    \E p \in PortIds :
        /\ p[2] = "panel" /\ panel[PortTab(p)].open /\ panel[PortTab(p)].port = p
        /\ panel[PortTab(p)].pending = 0
        /\ fromBg[p] # <<>> /\ Head(fromBg[p]).type = "SCREENSHOT_CAPTURED"

\* ------------------------------------- panel.js and db.js: editor and store
MaxComponents == 3      \* component ids are 1..MaxComponents
MaxPuts == 2            \* ComponentAuditorDB.save calls in progress at once
MaxTimers == 2          \* hide timers pending at once

ComponentIds == 1..MaxComponents
\* window.__CA_COMPONENT_ID__ = null
NoComponent == 0

\* store: the ids of the records in the object store (keyPath id);
\* componentId, hasScreenshot: window.__CA_COMPONENT_ID__ and
\* window.__CA_CROPPED_SCREENSHOT__; editorActive: the editor container is
\* displayed; loadedFrom: the library record the editor was last filled from,
\* NoComponent when it shows a capture or nothing; puts: the save calls whose
\* put has not completed, each with the id and the loadedFrom of its click;
\* timers: the setTimeout callbacks of handleSave still to run, oldest
\* first; nextUUID: the next id generateUUID returns. A put and a timer
\* also remember whether the editor has been filled again since the click
\* on save that led to them (refilled), which nothing in the code records
LibraryInitial(store) ==
    [phase |-> "panel", store |-> store, componentId |-> NoComponent,
     hasScreenshot |-> FALSE, editorActive |-> FALSE, loadedFrom |-> NoComponent,
     puts |-> <<>>, timers |-> <<>>, nextUUID |-> Cardinality(store) + 1]

showEditor(lib) == [lib EXCEPT !.editorActive = TRUE]

hideEditor(lib) ==
    [lib EXCEPT !.editorActive = FALSE, !.componentId = NoComponent,
                !.hasScreenshot = FALSE, !.loadedFrom = NoComponent]

\* variant: the id of the loaded component is not kept
loadComponentIntoEditor_NoId(lib, component) ==
    showEditor([lib EXCEPT !.hasScreenshot = TRUE, !.loadedFrom = component])

loadComponentIntoEditor(lib, component) ==
    showEditor([lib EXCEPT !.componentId = component, !.hasScreenshot = TRUE,
                           !.loadedFrom = component])

\* handleSave up to the call of ComponentAuditorDB.save: valid is the
\* outcome of validateField("atomic-level")
handleSave(lib, valid) ==
    IF ~valid \/ ~lib.hasScreenshot
    THEN lib
    ELSE LET fresh == lib.componentId = NoComponent
             id == IF fresh THEN lib.nextUUID ELSE lib.componentId
         IN [lib EXCEPT !.puts = Append(@, [id |-> id, loadedFrom |-> lib.loadedFrom,
                                            refilled |-> FALSE]),
                        !.nextUUID = IF fresh THEN @ + 1 ELSE @]

\* objectStore.put(data)
save(store, data) == store \cup {data.id}

\* the panel page has loaded and the store holds the records of earlier
\* sessions
InitLibrary ==
    /\ PagesIdle
    /\ cropRun = NoRun /\ tokenRun = NoRun /\ guessRun = NoRun
    /\ lineageRun = NoRun /\ frameworkRun = NoRun
    /\ \E n \in 0..1 : library = LibraryInitial(1..n)

\* the editor is about to be filled: every save under way is now older than
\* what the editor shows
Refilled(lib) ==
    [lib EXCEPT !.puts = [i \in DOMAIN @ |-> [@[i] EXCEPT !.refilled = TRUE]],
                !.timers = [i \in DOMAIN @ |-> TRUE]]

LibraryStep(lib) ==
    /\ library' = lib
    /\ UNCHANGED <<pagesVars, cropRun, tokenRun, guessRun, lineageRun, frameworkRun>>

\* the .then of cropScreenshot in handleScreenshotCaptured: a new capture
\* fills the editor
LibraryCaptureShown ==
    /\ library.phase = "panel"
    /\ LibraryStep(showEditor([Refilled(library) EXCEPT !.componentId = NoComponent,
                                                !.hasScreenshot = TRUE,
                                                !.loadedFrom = NoComponent]))

\* click on a library item
LibraryLoad(component) ==
    /\ component \in library.store
    /\ LibraryStep(loadComponentIntoEditor(Refilled(library), component))

\* click on the save button of the editor
LibrarySave(valid) ==
    /\ library.editorActive
    /\ Len(library.puts) < MaxPuts
    /\ library.componentId = NoComponent => library.nextUUID <= MaxComponents
    /\ LibraryStep(handleSave(library, valid))

\* request.onsuccess of save, then the .then of handleSave, which starts the
\* timer
LibraryPutSuccess ==
    /\ library.puts # <<>>
    /\ Len(library.timers) < MaxTimers
    /\ LibraryStep([library EXCEPT !.store = save(@, Head(library.puts)),
                                   !.puts = Tail(@),
                                   !.timers = Append(@, Head(library.puts).refilled)])

\* request.onerror of save, then the .catch of handleSave
LibraryPutError ==
    /\ library.puts # <<>>
    /\ LibraryStep([library EXCEPT !.puts = Tail(@)])

\* the setTimeout callback of handleSave, 800 ms after the save
LibraryHideTimer ==
    /\ library.timers # <<>>
    /\ LibraryStep(hideEditor([library EXCEPT !.timers = Tail(@)]))

\* click on the cancel button, confirmed
LibraryCancel ==
    /\ library.editorActive
    /\ LibraryStep(hideEditor(library))

\* deleteComponent, confirmed, and the delete of db.js
LibraryDelete(component) ==
    /\ component \in library.store
    /\ LibraryStep([library EXCEPT !.store = @ \ {component}])

NextLibrary ==
    \/ LibraryCaptureShown
    \/ \E component \in ComponentIds : LibraryLoad(component)
    \/ \E valid \in BOOLEAN : LibrarySave(valid)
    \/ LibraryPutSuccess
    \/ LibraryPutError
    \/ LibraryHideTimer
    \/ LibraryCancel
    \/ \E component \in ComponentIds : LibraryDelete(component)

SpecLibrary == InitLibrary /\ [][NextLibrary]_vars

\* ------------------------------------------------------------------ C24
\* C24: when the put of a save completes, a save clicked while the editor
\* showed a component loaded from the library writes under that component's
\* id, so that the number of records is unchanged as long as the record is
\* still stored, and a save clicked while the editor showed a new capture
\* writes under an id that no record has, adding one record.
C24_SaveOfLoadedOverwrites ==
    [][LibraryPutSuccess
       => LET data == Head(library.puts)
          IN IF data.loadedFrom # NoComponent
             THEN /\ data.id = data.loadedFrom
                  /\ library'.store = library.store \cup {data.loadedFrom}
                  /\ data.loadedFrom \in library.store
                        => Cardinality(library'.store) = Cardinality(library.store)
             ELSE /\ data.id \notin library.store
                  /\ Cardinality(library'.store) = Cardinality(library.store) + 1
      ]_vars

\* the save of a loaded component is about to complete, with the record
\* still stored, while an earlier hide timer is pending and the editor has
\* been filled again since
C24_LoadedSavePending ==
    /\ library.puts # <<>>
    /\ Head(library.puts).loadedFrom \in library.store
    /\ library.timers # <<>>
    /\ library.editorActive
    /\ Cardinality(library.store) >= 2

\* ------------------------------------------------------------------ C25
\* C25: the step in which the agent handles START_SELECTION while already
\* in selection mode changes nothing of the agent (its listeners, its one
\* cursor style and its overlay stay as they are) and sends nothing.
C25_StartWhileArmed ==
    [][\A t \in Tabs :
          (AgentHandles(t, "START_SELECTION") /\ agent[t].isSelectionMode)
          => /\ agent'[t] = agent[t]
             /\ agent'[t].cursorStyles = 1
             /\ EmitsNothing
      ]_vars

\* START_SELECTION is the next message of an agent already in selection mode
C25_StartPending ==
    \/ \E p \in AgentPorts(1) :
          /\ agent[1].port = p /\ agent[1].isSelectionMode
          /\ fromBg[p] # <<>> /\ Head(fromBg[p]).type = "START_SELECTION"
    \/ /\ agent[1].loaded /\ agent[1].isSelectionMode
       /\ tabMsgs[1] # <<>> /\ Head(tabMsgs[1]).type = "START_SELECTION"

\* ------------------------------------------------------------------ C26
\* C26: a step in which the agent of tab t sends ELEMENT_SELECTED sends
\* exactly one, is a click made while the agent is in selection mode, and
\* leaves the agent Idle, so that one armed period yields at most one
\* selection result; a click made while the agent is Idle sends nothing; and
\* the agent never sends SELECTION_CANCELED.
C26_OneResultPerArming ==
    [][\A t \in Tabs :
          /\ AgentSent(toBg', rtMsgs', t, "ELEMENT_SELECTED")
                > AgentSent(toBg, rtMsgs, t, "ELEMENT_SELECTED")
             => /\ AgentSent(toBg', rtMsgs', t, "ELEMENT_SELECTED")
                      = AgentSent(toBg, rtMsgs, t, "ELEMENT_SELECTED") + 1
                /\ AgentClick(t, "element")
                /\ agent[t].isSelectionMode
                /\ AgentIdle(agent'[t])
          /\ (\E target \in {"element", "overlay"} : AgentClick(t, target))
                /\ ~agent[t].isSelectionMode
             => EmitsNothing /\ agent'[t] = agent[t]
          /\ AgentSent(toBg', rtMsgs', t, "SELECTION_CANCELED") = 0
      ]_vars

\* the agent is Idle again with the one result of its armed period sent
C26_ResultSentAndIdle ==
    /\ agent[1].loaded /\ AgentIdle(agent[1])
    /\ agent[1].lastElement # 0
    /\ AgentSent(toBg, rtMsgs, 1, "ELEMENT_SELECTED") = 1

\* ------------------------------------------------------------------ C27
\* C27: a click on the overlay while the agent is in selection mode leaves
\* the agent as it is, in selection mode and with the same last selected
\* element, and sends nothing.
C27_OverlayClickIgnored ==
    [][\A t \in Tabs :
          (AgentClick(t, "overlay") /\ agent[t].isSelectionMode)
          => /\ agent'[t] = agent[t]
             /\ agent'[t].isSelectionMode
             /\ agent'[t].lastElement = agent[t].lastElement
             /\ EmitsNothing
      ]_vars

\* the agent is in selection mode with its overlay displayed in the page,
\* where the next click can land on it
C27_OverlayClickable ==
    /\ agent[1].loaded /\ agent[1].isSelectionMode /\ agent[1].listeners
    /\ agent[1].overlay = "shown"
    /\ events < MaxEvents

\* ------------------------------------------------------------------ C28
SpacingSides == {"top", "right", "bottom", "left"}

\* the spacing of a Token Set has the four padding sides and the four margin
\* sides, each with a value
SpacingComplete(tokens) ==
    /\ {"padding", "margin"} \subseteq DOMAIN tokens.spacing
    /\ \A box \in {"padding", "margin"} :
          /\ DOMAIN tokens.spacing[box] = SpacingSides
          /\ \A side \in SpacingSides : tokens.spacing[box][side] # ""

\* C28: the Token Set extractTokens hands back has all four padding sides
\* and all four margin sides, also when reading the computed style threw.
C28_SpacingAlwaysPresent ==
    tokenRun.phase \in {"returned", "caught"} => SpacingComplete(tokenRun.tokens)

\* --------------------------------------------- content.js: extractLineage
MaxAncestors == 4       \* the clicked element has 0..MaxAncestors ancestors

\* an ancestor element: what extractLineage reads of it, and its markup
AncestorElements ==
    [tagName : {"DIV", "BODY"}, className : {"", "card"}, id : {""},
     outerHTML : {"<...>"}]

\* the ancestors of the clicked element, parent first
AncestorChains ==
    UNION {[1..n -> AncestorElements] : n \in 0..MaxAncestors}

\* the loop of extractLineage: current is the index of the ancestor reached,
\* past the end of the chain when parentElement is null
RECURSIVE lineageLoop(_, _, _, _, _)
lineageLoop(chain, current, level, maxLevels, lineage) ==
    IF current <= Len(chain) /\ level < maxLevels
    THEN lineageLoop(chain, current + 1, level + 1, maxLevels,
                     Append(lineage, [tagName |-> OrElse(chain[current].tagName, ""),
                                      className |-> OrElse(chain[current].className, ""),
                                      id |-> OrElse(chain[current].id, "")]))
    ELSE lineage

\* variant: the loop stops one level late
extractLineage_OneMore(chain) == lineageLoop(chain, 1, 0, 4, <<>>)

extractLineage(chain) == lineageLoop(chain, 1, 0, 3, <<>>)

\* handleClick is about to call extractLineage(e.target)
InitLineage ==
    /\ PagesIdle
    /\ cropRun = NoRun /\ tokenRun = NoRun /\ guessRun = NoRun
    /\ frameworkRun = NoRun /\ library = NoRun
    /\ \E chain \in AncestorChains :
          lineageRun = [phase |-> "called", chain |-> chain, lineage |-> <<>>]

ExtractLineage ==
    /\ lineageRun.phase = "called"
    /\ lineageRun' = [lineageRun EXCEPT !.phase = "returned",
                                        !.lineage = extractLineage(lineageRun.chain)]
    /\ UNCHANGED <<pagesVars, cropRun, tokenRun, guessRun, frameworkRun, library>>

SpecLineage == InitLineage /\ [][ExtractLineage]_vars

\* ------------------------------------------------------------------ C29
\* C29: for an element with n ancestors extractLineage returns min(n, 3)
\* descriptors, the i-th being that of the i-th ancestor counted from the
\* parent, each with its tag name, class name and id and nothing else.
C29_LineageOfThree ==
    lineageRun.phase = "returned"
    => LET n == Len(lineageRun.chain)
           lineage == lineageRun.lineage
       IN /\ Len(lineage) = IF n < 3 THEN n ELSE 3
          /\ \A i \in DOMAIN lineage :
                /\ DOMAIN lineage[i] = {"tagName", "className", "id"}
                /\ lineage[i].tagName = lineageRun.chain[i].tagName
                /\ lineage[i].className = lineageRun.chain[i].className
                /\ lineage[i].id = lineageRun.chain[i].id

\* the lineage of an element with four ancestors has been returned
C29_DeepElementDone ==
    /\ lineageRun.phase = "returned"
    /\ Len(lineageRun.chain) = 4
    /\ Len(lineageRun.lineage) = 3
    /\ lineageRun.chain[1].tagName = "DIV" /\ lineageRun.chain[4].tagName = "BODY"

\* ------------------------------------------- content.js: detectFrameworks
\* What the probes of detectFrameworks find in a page: for each library
\* whether one of its checks succeeds, and what window.ng is
ProbedPages ==
    [react : BOOLEAN, vue : BOOLEAN, angularjs : BOOLEAN, ngElement : BOOLEAN,
     windowNg : {"undefined", "object", "empty string"}, ngScript : BOOLEAN, jquery : BOOLEAN,
     webpack : BOOLEAN, bootstrap : BOOLEAN, tailwind : BOOLEAN, mui : BOOLEAN]

\* detected.push(name) under a condition
PushName(detected, cond, name) == IF cond THEN Append(detected, name) ELSE detected

Includes(detected, name) == \E i \in DOMAIN detected : detected[i] = name

\* the one try block of detectFrameworks, statement by statement: reading
\* window.ng.probe of an undefined window.ng throws, and the catch returns
\* what has been detected so far
detectFrameworks(page) ==
    LET d1 == PushName(<<>>, page.react, "React")
        d2 == PushName(d1, page.vue, "Vue")
        d3 == PushName(d2, page.angularjs, "AngularJS")
        hasAngular1 == page.angularjs
        d4 == PushName(d3, ~hasAngular1 /\ page.ngElement, "Angular")
        hasAngular2 == hasAngular1 \/ page.ngElement
        throws == ~hasAngular2 /\ page.windowNg = "undefined"
        d5 == PushName(d4, ~hasAngular2 /\ page.windowNg = "object", "Angular")
        hasAngular3 == hasAngular2 \/ page.windowNg = "object"
        d6 == PushName(d5, /\ ~hasAngular3 /\ page.ngScript
                           /\ ~Includes(d5, "Angular") /\ ~Includes(d5, "AngularJS"),
                       "Angular")
        d7 == PushName(d6, page.jquery, "jQuery")
        d8 == PushName(d7, page.webpack, "webpack")
        d9 == PushName(d8, page.bootstrap, "Bootstrap")
        d10 == PushName(d9, page.tailwind, "Tailwind")
        d11 == PushName(d10, page.mui, "Material-UI")
    IN  IF throws THEN d4 ELSE d11

\* handleClick is about to call detectFrameworks()
InitFrameworks ==
    /\ PagesIdle
    /\ cropRun = NoRun /\ tokenRun = NoRun /\ guessRun = NoRun
    /\ lineageRun = NoRun /\ library = NoRun
    /\ \E page \in ProbedPages :
          frameworkRun = [phase |-> "called", page |-> page, detected |-> <<>>]

DetectFrameworks ==
    /\ frameworkRun.phase = "called"
    /\ frameworkRun' = [frameworkRun EXCEPT
                            !.phase = "returned",
                            !.detected = detectFrameworks(frameworkRun.page)]
    /\ UNCHANGED <<pagesVars, cropRun, tokenRun, guessRun, lineageRun, library>>

SpecFrameworks == InitFrameworks /\ [][DetectFrameworks]_vars

\* ------------------------------------------------------------------ C30
\* the names whose probe finds what it looks for in the page; Angular is
\* looked for only when AngularJS was not found
ProbesThatHold(page) ==
    {name \in {"React", "Vue", "AngularJS", "Angular", "jQuery", "webpack",
               "Bootstrap", "Tailwind", "Material-UI"} :
        \/ name = "React" /\ page.react
        \/ name = "Vue" /\ page.vue
        \/ name = "AngularJS" /\ page.angularjs
        \/ name = "Angular" /\ ~page.angularjs
              /\ (page.ngElement \/ page.windowNg = "object" \/ page.ngScript)
        \/ name = "jQuery" /\ page.jquery
        \/ name = "webpack" /\ page.webpack
        \/ name = "Bootstrap" /\ page.bootstrap
        \/ name = "Tailwind" /\ page.tailwind
        \/ name = "Material-UI" /\ page.mui}

\* C30: the list detectFrameworks returns has no name twice and has the name
\* of every probe that finds what it looks for, whatever another probe does.
C30_ProbesIndependent ==
    frameworkRun.phase = "returned"
    => LET detected == frameworkRun.detected
       IN /\ \A i, j \in DOMAIN detected : detected[i] = detected[j] => i = j
          /\ \A name \in ProbesThatHold(frameworkRun.page) : Includes(detected, name)

\* ------------------------------------------------------------------ C31
\* C31: after the agent's port is lost (port null at the agent, no entry for
\* the tab in contentConnections) the fallback paths carry a selection: the
\* background hands a START_SELECTION of a registered inspector port of
\* tab k to chrome.tabs.sendMessage, the content script that handles it as
\* a one-shot message is in selection mode afterwards, the click that
\* follows sends ELEMENT_SELECTED with chrome.runtime.sendMessage, and the
\* background posts that message on the inspector port registered for the
\* tab.
C31_FallbackPaths ==
    [][/\ \A p \in PortIds, k \in Tabs :
            (/\ BgOnMessage(p)
             /\ IsPanelPort(p) /\ discTab[p] = k
             /\ BgHead(p).type = "START_SELECTION" /\ BgHead(p).tabId = k
             /\ ~MapHas(contentConnections, k))
            => /\ tabMsgs' = [tabMsgs EXCEPT ![k] = Append(@, Msg("START_SELECTION", NoTab))]
               /\ fromBg' = fromBg
       /\ \A t \in Tabs :
            (/\ AgentTabMessage(t)
             /\ agent[t].loaded /\ agent[t].port = NoPort
             /\ Head(tabMsgs[t]).type = "START_SELECTION")
            => agent'[t].isSelectionMode /\ agent'[t].listeners
       /\ \A t \in Tabs :
            (/\ AgentClick(t, "element")
             /\ agent[t].port = NoPort
             /\ agent[t].isSelectionMode /\ agent[t].listeners)
            => /\ rtMsgs' = [rtMsgs EXCEPT ![t] =
                                Append(@, SelMsg(agent[t].currentTabId, nextSel, "runtime",
                                                 selectionRect(agent[t])))]
               /\ toBg' = toBg
       /\ \A t \in Tabs, p \in PortIds :
            (/\ BgOnRuntimeMessage(t)
             /\ Head(rtMsgs[t]).type = "ELEMENT_SELECTED"
             /\ <<t, p>> \in panelConnections)
            => fromBg' = [fromBg EXCEPT ![p] = Append(@, Head(rtMsgs[t]))]
      ]_vars

\* the agent of tab 1 has lost its port, the background has no entry for
\* the tab, and the result of a click made after a START_SELECTION is on
\* the inspector port registered for the tab, sent as a one-shot message
C31_ResultViaFallback ==
    /\ agent[1].loaded /\ agent[1].port = NoPort
    /\ ~MapHas(contentConnections, 1)
    /\ \E p \in PortIds :
          /\ <<1, p>> \in panelConnections
          /\ \E i \in DOMAIN fromBg[p] :
                fromBg[p][i].type = "ELEMENT_SELECTED" /\ fromBg[p][i].via = "runtime"

\* ------------------------------------------------------------------ C32
\* C32: the closure of a port that announced key k and is no longer the
\* port stored for k leaves the maps of the background as they are and
\* sends nothing to the agent: the newer registration stays.
C32_ReplacedClosureHarmless ==
    [][\A p \in PortIds, k \in Tabs :
          /\ (/\ BgOnDisconnect(p)
              /\ IsPanelPort(p) /\ discTab[p] = k
              /\ MapHas(panelConnections, k) /\ MapGet(panelConnections, k) # p)
             => /\ panelConnections' = panelConnections
                /\ SentNothing
          /\ (/\ BgOnDisconnect(p)
              /\ IsContentPort(p) /\ discTab[p] = k
              /\ MapHas(contentConnections, k) /\ MapGet(contentConnections, k) # p)
             => contentConnections' = contentConnections
      ]_vars

\* ------------------------------------------------------------------ C33
\* the ports the DevTools pages of tab k opened
InspectorPorts(k) == {q \in PortIds : IsPanelPort(q) /\ PortTab(q) = k}

\* this step puts nothing on a port of the inspector of a tab other than k
NothingToOtherInspectors(k) ==
    \A j \in Tabs \ {k} : \A q \in InspectorPorts(j) : fromBg'[q] = fromBg[q]

\* C33: with the sessions of two tabs active, the step in which the
\* background routes an ELEMENT_SELECTED of the content script of tab k
\* (from its port, by message.tabId or sender.tab.id, or as a one-shot
\* message, by sender.tab.id) and the steps in which it answers a
\* CAPTURE_SCREENSHOT of an inspector port of tab k put nothing on a port of
\* the inspector of another tab, and the content script of a tab never
\* holds the id of another tab.
C33_NoCrossDelivery ==
    /\ [](\A t \in Tabs : agent[t].currentTabId \in {NoTab, t})
    /\ [][/\ \A p \in PortIds :
               (BgOnMessage(p) /\ IsContentPort(p) /\ BgHead(p).type = "ELEMENT_SELECTED")
               => NothingToOtherInspectors(PortTab(p))
          /\ \A t \in Tabs :
               (BgOnRuntimeMessage(t) /\ Head(rtMsgs[t]).type = "ELEMENT_SELECTED")
               => NothingToOtherInspectors(t)
          /\ \A i \in DOMAIN captures, ok \in BOOLEAN :
               ((TabsGetCallback(i, ok) \/ CaptureVisibleTabCallback(i, ok))
                   /\ IsPanelPort(captures[i].port))
               => NothingToOtherInspectors(PortTab(captures[i].port))
         ]_vars

\* the sessions of tabs 1 and 2 are both registered, a selection of the
\* agent of tab 1 has been handled by the panel of tab 1 and the response to
\* its capture request is on the port of that panel
C33_TwoSessionsOneCapture ==
    /\ MapHas(panelConnections, 1) /\ MapHas(panelConnections, 2)
    /\ MapHas(contentConnections, 1) /\ MapHas(contentConnections, 2)
    /\ panel[1].pending # 0
    /\ \E q \in InspectorPorts(1) : \E i \in DOMAIN fromBg[q] :
          fromBg[q][i].type = "SCREENSHOT_CAPTURED"

\* ------------------------------------------------------------------ C34
\* C34: the step in which the panel handles SCREENSHOT_CAPTURED and starts a
\* crop with the rectangle of the pending selection handles the response to
\* the capture request that this same selection triggered.
C34_CropOfOwnCapture ==
    [][\A t \in Tabs :
          (PanelHandles(t, "SCREENSHOT_CAPTURED") /\ panel[t].pending # 0)
          => \E p \in InspectorPorts(t) :
                /\ PanelPortMessage(p) \/ DevtoolsPortMessage(p)
                /\ ClientHead(p).sel = panel[t].pending
      ]_vars

\* ------------------------------------------------------------------ C35
\* the steps the browser schedules by itself: a queued port event, one-shot
\* message or platform callback is delivered to its listener, and a pending
\* promise settles
Delivery ==
    \/ \E p \in PortIds : BgOnConnect(p) \/ BgOnMessage(p) \/ BgOnDisconnect(p)
    \/ \E t \in Tabs : BgOnRuntimeMessage(t) \/ AgentTabMessage(t)
    \/ \E i \in DOMAIN captures, ok \in BOOLEAN :
          TabsGetCallback(i, ok) \/ CaptureVisibleTabCallback(i, ok)
    \/ \E p \in PortIds : AgentPortMessage(p) \/ PanelPortMessage(p) \/ DevtoolsPortMessage(p)
    \/ \E p \in PortIds, ok \in BOOLEAN : AgentOnDisconnect(p, ok)
    \/ \E p \in PortIds : DeadLetter(p)
    \/ \E t \in ActiveTabs : PanelInit(t)
    \/ \E t \in Tabs, ok \in BOOLEAN : \E i \in DOMAIN panel[t].crops : CropSettled(t, i, ok)

\* every queued event is delivered in the end; the operator and the page
\* act when they like
SpecLive == Init /\ [][Next]_vars /\ WF_vars(Delivery)

\* C35: once the agent of a tab has been in selection mode, whenever it is
\* out of selection mode while the panel's isSelectionMode is true, the
\* panel's flag becomes false in the end (or the agent is armed again, by
\* a start that was on its way).
C35_FlagClearedWhenAgentIdle ==
    \A t \in ActiveTabs :
        [](agent[t].isSelectionMode
           => []((~agent[t].isSelectionMode /\ panel[t].isSelectionMode)
                 => <>(~panel[t].isSelectionMode \/ agent[t].isSelectionMode)))

\* ------------------------------------------------------------------ C36
\* C36: in every reachable state of a content script the mouseover and
\* click listeners are installed exactly when isSelectionMode is true, the
\* crosshair style element is in the document exactly when isSelectionMode
\* is true, the overlay is displayed only when isSelectionMode is true, and
\* the document holds at most one overlay element and at most one crosshair
\* style element.
C36_ResourcesFollowMode ==
    \A t \in Tabs :
        LET a == agent[t]
        IN /\ a.listeners <=> a.isSelectionMode
           /\ (a.cursorStyles >= 1) <=> a.isSelectionMode
           /\ a.overlay = "shown" => a.isSelectionMode
           /\ a.overlays <= 1 /\ a.cursorStyles <= 1
           /\ (a.overlays = 1) <=> (a.overlay # "null")

\* the agent of tab 1 is armed for the second time: its overlay, hidden
\* after the first selection, is displayed again
C36_ArmedAgain ==
    /\ agent[1].isSelectionMode /\ agent[1].overlay = "shown"
    /\ agent[1].lastElement # 0

\* ------------------------------------------------------------------ C37
\* the messages that may follow a teardown
AfterTeardown == {"DEVTOOLS_DISCONNECTED", "STOP_SELECTION", "DEVTOOLS_INACTIVE"}

\* C37: for every reachable state of a content script, handling
\* DEVTOOLS_DISCONNECTED and then DEVTOOLS_DISCONNECTED, STOP_SELECTION or
\* DEVTOOLS_INACTIVE leaves the state that handling DEVTOOLS_DISCONNECTED
\* once leaves, and a step in which the content script handles one of these
\* messages sends nothing.
C37_TeardownIdempotent ==
    /\ [](\A t \in Tabs : \A type \in AfterTeardown :
            LET once == AgentHandleMessage(agent[t], Msg("DEVTOOLS_DISCONNECTED", t))
            IN AgentHandleMessage(once, Msg(type, t)) = once)
    /\ [][/\ \A p \in PortIds :
               (AgentPortMessage(p) /\ ClientHead(p).type \in AfterTeardown)
               => toBg' = toBg /\ rtMsgs' = rtMsgs
          /\ \A t \in Tabs :
               (AgentTabMessage(t) /\ Head(tabMsgs[t]).type \in AfterTeardown)
               => toBg' = toBg /\ rtMsgs' = rtMsgs
         ]_vars

\* the only event so far is DevTools of tab 1 closing: the background has
\* seen both inspector ports disconnect and sent a teardown for each, the
\* agent has handled the first and the second is next on its port
C37_SecondTeardownNext ==
    /\ agent[1].loaded /\ agent[1].port # NoPort
    /\ ~devtools[1].open /\ agent[2].loaded /\ events = 1
    /\ InspectorPorts(1) \cap bgConnected = {}
    /\ \A q \in InspectorPorts(1) : toBg[q] = <<>>
    /\ agent[1].overlay = "null" /\ ~agent[1].isSelectionMode
    /\ fromBg[agent[1].port] = <<Msg("DEVTOOLS_DISCONNECTED", 1)>>

\* ------------------------------------------------------------------ C38
\* C38: when the hide timer of a save runs after the editor has been filled
\* again (by a new capture or by a component loaded from the library) and
\* still shows that newer component, the screenshot, the id and the display
\* of the newer component are as they were.
C38_HideKeepsNewer ==
    [][(LibraryHideTimer /\ Head(library.timers) /\ library.hasScreenshot)
       => /\ library'.hasScreenshot
          /\ library'.componentId = library.componentId
          /\ library'.loadedFrom = library.loadedFrom
          /\ library'.editorActive = library.editorActive
      ]_vars

\* ------------------------------------------------------------------ C39
\* C39: when a crop succeeds, the source rectangle handed to drawImage lies
\* inside the target's scaled rectangle, from viewportX*d to
\* (viewportX + width)*d and from viewportY*d to (viewportY + height)*d;
\* so, also for a target that starts left of or above the viewport, the
\* pixels drawn end at or before the target's right and bottom edges.
C39_SourceWithinTarget ==
    (LoadSettled /\ cropRun.result.outcome = "resolved")
    => LET src == cropRun.result.source
           rect == cropRun.rect
           d == cropRun.dpr
       IN /\ src.x >= rect.viewportX * d
          /\ src.y >= rect.viewportY * d
          /\ src.x + src.width <= (rect.viewportX + rect.width) * d
          /\ src.y + src.height <= (rect.viewportY + rect.height) * d

\* a crop has succeeded for a target that starts left of the viewport and
\* ends inside the image
C39_NegativeOriginCropped ==
    /\ LoadSettled /\ cropRun.result.outcome = "resolved"
    /\ cropRun.rect.viewportX < 0
    /\ cropRun.rect.viewportX + cropRun.rect.width > 0
    /\ (cropRun.rect.viewportX + cropRun.rect.width) * cropRun.dpr < cropRun.img.width
    /\ cropRun.rect.height > 0 /\ cropRun.rect.viewportY >= 0

\* ------------------------------------------------------------------ C40
\* the capture request that selection n caused is unanswered: it is on its
\* way to the background, or its capture job is running, or its response is
\* on its way to the panel of tab t
CaptureUnanswered(t, n) ==
    \/ \E q \in InspectorPorts(t) : \E i \in DOMAIN toBg[q] :
          toBg[q][i].type = "CAPTURE_SCREENSHOT" /\ toBg[q][i].sel = n
    \/ \E i \in DOMAIN captures :
          captures[i].port \in InspectorPorts(t) /\ captures[i].sel = n
    \/ \E q \in InspectorPorts(t) : \E i \in DOMAIN fromBg[q] :
          /\ fromBg[q][i].type \in {"SCREENSHOT_CAPTURED", "SCREENSHOT_ERROR"}
          /\ fromBg[q][i].sel = n

\* a crop with the rectangle of selection n is in progress
CropInProgress(t, n) == \E i \in DOMAIN panel[t].crops : panel[t].crops[i] = n

\* C40: the pending-selection slot of a panel holds a selection only while
\* the capture request sent for that selection is unanswered or a crop with
\* its rectangle is in progress; a step that puts a selection into the slot
\* posts one CAPTURE_SCREENSHOT on the panel's port; and the slot is empty
\* after a crop has settled, with success or failure, and after
\* SCREENSHOT_ERROR has been handled.
C40_PendingOnlyWhileCapturing ==
    /\ [](\A t \in Tabs :
            panel[t].pending # 0
            => CaptureUnanswered(t, panel[t].pending)
                  \/ CropInProgress(t, panel[t].pending))
    /\ [][\A t \in Tabs :
            /\ (panel'[t].pending # 0 /\ panel'[t].pending # panel[t].pending)
               => /\ PanelHandles(t, "ELEMENT_SELECTED")
                  /\ CountType(toBg'[panel[t].port], "CAPTURE_SCREENSHOT")
                        = CountType(toBg[panel[t].port], "CAPTURE_SCREENSHOT") + 1
            /\ (\E ok \in BOOLEAN : \E i \in DOMAIN panel[t].crops : CropSettled(t, i, ok))
               => panel'[t].pending = 0
            /\ PanelHandles(t, "SCREENSHOT_ERROR") => panel'[t].pending = 0
         ]_vars

\* the capture for the pending selection of tab 1 has been answered and the
\* crop with its rectangle is in progress, the slot still holding it
C40_CropOfPending ==
    /\ panel[1].pending # 0
    /\ CropInProgress(1, panel[1].pending)
    /\ ~CaptureUnanswered(1, panel[1].pending)

====
